---------------------------- MODULE Spec2Model ----------------------------
(***************************************************************************)
(* Formulation layer of the optimisation pages: each page reads typed      *)
(* inputs from its form, builds a linear model (variables, constraints in  *)
(* creation order, objective), hands it to the MIP/LP engine once, and     *)
(* decodes the solved values.                                              *)
(*                                                                         *)
(* Job shop: src/JobShop.py and src/pages/JobShop.py (same logic, English  *)
(* and French labels).  Allocation: src/BudgetAllocation.py and            *)
(* src/pages/BudgetAllocation.py.  Facility location:                      *)
(* src/pages/FacilityLocation.py and src/FacilityLocation.py; coverage:    *)
(* src/facilityLocation.py.  Resource usage of an uploaded script:         *)
(* src/ScriptsOptimization.py.                                             *)
(*                                                                         *)
(* In the job shop, Python indices are 0-based and are kept 0-based in     *)
(* every name and key; TLA+ sequences are 1-based, so job j of the code is *)
(* jobs_data[j + 1] and a task (machine, duration) is <<machine, duration>>*)
(***************************************************************************)
EXTENDS Integers, Sequences, FiniteSets, TLC

VARIABLES
    page,       \* which page's handler runs
    pc,         \* position in the handler of the "Optimiser" button
    input,      \* the values the sidebar form holds (SpecRender: st.session_state)
    horizon,    \* JobShop: local `horizon`
    model,      \* the gurobipy Model as built
    status,     \* model.status after optimize()
    X,          \* the solved values (var.X), by position of the variable
    shown,      \* what the page has displayed
    previous,   \* history: the Model built by the session's previous solve action
    files,      \* the paths that exist in the working directory
    process,    \* ScriptsOptimization: the child started by subprocess.Popen
    usage       \* ScriptsOptimization: locals cpu_usage, memory_usage, timestamps

vars == <<page, pc, input, horizon, model, status, X, shown, previous, files, process, usage>>

(***************************************************************************)
(* Bounds of the exploration.                                              *)
(***************************************************************************)
\* Job shop inputs: the durations of an instance sum to at most MaxHorizon.
MaxHorizon == 3
\* Job shop inputs: num_machines ranges over 1..MaxMachines.
MaxMachines == 1
\* Integer variables have no upper bound in the engine; the exploration
\* lets them range over 0..(horizon + Slack).
Slack == 1

(***************************************************************************)
(* Linear expressions, constraints and their evaluation.                   *)
(***************************************************************************)
NoModel == [name |-> "", vars |-> <<>>, constrs |-> <<>>,
            obj |-> [terms |-> <<>>, const |-> 0], sense |-> ""]
NoValues == <<>>
NoResult == [kind |-> "none"]
\* No child process, no samples.
NoProcess == [state |-> "none"]
NoUsage == [cpu_usage |-> <<>>, memory_usage |-> <<>>, timestamps |-> <<>>]

RECURSIVE Flatten(_)
Flatten(ss) == IF ss = <<>> THEN <<>> ELSE Head(ss) \o Flatten(Tail(ss))

RECURSIVE SumSeq(_)
SumSeq(s) == IF s = <<>> THEN 0 ELSE Head(s) + SumSeq(Tail(s))

\* A variable is referred to by its position in the model's variable list
\* (its column), a term is coefficient * variable.
Term(c, v) == <<c, v>>
Lin(terms, const) == [terms |-> terms, const |-> const]

RECURSIVE SumTerms(_, _, _)
SumTerms(terms, a, k) ==
    IF k = 0 THEN 0 ELSE terms[k][1] * a[terms[k][2]] + SumTerms(terms, a, k - 1)

\* Value of a linear expression under the assignment a (a[v] is the value
\* of variable v).
Eval(e, a) == SumTerms(e.terms, a, Len(e.terms)) + e.const

Holds(c, a) ==
    CASE c.sense = "<=" -> Eval(c.lhs, a) <= Eval(c.rhs, a)
      [] c.sense = ">=" -> Eval(c.lhs, a) >= Eval(c.rhs, a)
      [] c.sense = "="  -> Eval(c.lhs, a) = Eval(c.rhs, a)

VarSeqOfExpr(e) == [k \in 1..Len(e.terms) |-> e.terms[k][2]]
VarSeqOfConstr(c) == VarSeqOfExpr(c.lhs) \o VarSeqOfExpr(c.rhs)
VarsOfConstr(c) == {VarSeqOfConstr(c)[k] : k \in 1..Len(VarSeqOfConstr(c))}

(***************************************************************************)
(* Job shop: model construction (main, lines 56-108).                      *)
(***************************************************************************)
Machine(task) == task[1]
Duration(task) == task[2]

\* Mutant: the big-M counts the tasks instead of summing their durations.
Horizon_TaskCount(jobs_data) ==
    SumSeq([j \in 1..Len(jobs_data) |-> Len(jobs_data[j])])

\* Mutant: the big-M is the longest duration instead of the sum.
Horizon_MaxDuration(jobs_data) ==
    LET ds == UNION {{jobs_data[j][t][2] : t \in 1..Len(jobs_data[j])} : j \in 1..Len(jobs_data)}
    IN  CHOOSE d \in ds : \A e \in ds : e <= d

\* horizon = sum(task[1] for job in jobs_data for task in job)
Horizon(jobs_data) ==
    SumSeq([j \in 1..Len(jobs_data) |->
              SumSeq([t \in 1..Len(jobs_data[j]) |-> Duration(jobs_data[j][t])])])

\* (job_id, task_id) in the order of the nested enumerate loops.
TaskKeys(jobs_data) ==
    Flatten([j \in 1..Len(jobs_data) |->
               [t \in 1..Len(jobs_data[j]) |-> <<j - 1, t - 1>>]])

TaskOf(jobs_data, job_id, task_id) == jobs_data[job_id + 1][task_id + 1]

\* start_vars[job_id, task_id]: the variables are created in the order of
\* TaskKeys, so this is the variable's position.
start_vars(jobs_data, job_id, task_id) ==
    SumSeq([j \in 1..job_id |-> Len(jobs_data[j])]) + task_id + 1

\* start_vars[job_id, task_id] = model.addVar(vtype=GRB.INTEGER, ...)
StartVars(jobs_data) ==
    LET keys == TaskKeys(jobs_data)
    IN  [k \in 1..Len(keys) |->
           [name |-> <<"start", keys[k][1], keys[k][2]>>, vtype |-> "INTEGER"]]

\* makespan = model.addVar(vtype=GRB.INTEGER, name="makespan")
MakespanVar == [name |-> <<"makespan">>, vtype |-> "INTEGER"]
makespan(jobs_data) == Len(TaskKeys(jobs_data)) + 1

\* Mutant: the predecessor's duration is left out of the precedence.
Precedence_NoDuration(jobs_data, job_id, task_id) ==
    [name  |-> <<"precedence", job_id, task_id>>,
     lhs   |-> [terms |-> <<<<1, SumSeq([j \in 1..job_id |-> Len(jobs_data[j])]) + task_id + 2>>>>,
                const |-> 0],
     sense |-> ">=",
     rhs   |-> [terms |-> <<<<1, SumSeq([j \in 1..job_id |-> Len(jobs_data[j])]) + task_id + 1>>>>,
                const |-> 0]]

\* start[job, task + 1] >= start[job, task] + job[task][1]
Precedence(jobs_data, job_id, task_id) ==
    [name  |-> <<"precedence", job_id, task_id>>,
     lhs   |-> Lin(<<Term(1, start_vars(jobs_data, job_id, task_id + 1))>>, 0),
     sense |-> ">=",
     rhs   |-> Lin(<<Term(1, start_vars(jobs_data, job_id, task_id))>>,
                   Duration(TaskOf(jobs_data, job_id, task_id)))]

PrecedenceConstrs(jobs_data) ==
    Flatten([j \in 1..Len(jobs_data) |->
               [t \in 1..(Len(jobs_data[j]) - 1) |-> Precedence(jobs_data, j - 1, t - 1)]])

\* machine_tasks: (job_id, task_id, duration) of the tasks on `machine`.
machine_tasks(jobs_data, machine) ==
    LET keys == TaskKeys(jobs_data)
        on   == SelectSeq(keys, LAMBDA k : Machine(TaskOf(jobs_data, k[1], k[2])) = machine)
    IN  [k \in 1..Len(on) |->
           <<on[k][1], on[k][2], Duration(TaskOf(jobs_data, on[k][1], on[k][2]))>>]

\* The (i, j) with i < j of the double enumerate loop, i outer, j inner.
OrderedPairs(n) ==
    Flatten([i \in 1..n |-> [k \in 1..(n - i) |-> <<i, i + k>>]])

\* The pairs of tasks sharing a machine, machine by machine.
MachinePairs(jobs_data, num_machines) ==
    Flatten([m \in 1..num_machines |->
               LET mt == machine_tasks(jobs_data, m - 1)
                   ps == OrderedPairs(Len(mt))
               IN  [k \in 1..Len(ps) |-> <<mt[ps[k][1]], mt[ps[k][2]]>>]])

\* z = model.addVar(vtype=GRB.BINARY, name=f"order_...")
OrderVars(jobs_data, num_machines) ==
    LET ps == MachinePairs(jobs_data, num_machines)
    IN  [k \in 1..Len(ps) |->
           [name  |-> <<"order", ps[k][1][1], ps[k][1][2], ps[k][2][1], ps[k][2][2]>>,
            vtype |-> "BINARY"]]

\* The k-th z is created after the start variables and makespan.
OrderVar(jobs_data, k) == makespan(jobs_data) + k

\* start[job1, task1] + dur1 <= start[job2, task2] + horizon * (1 - z),
\* for a = (job1, task1, dur1) and b = (job2, task2, dur2).
NoOverlap1(jobs_data, a, b, z, H) ==
    [name  |-> <<"no_overlap_1", a[1], a[2], b[1], b[2]>>,
     lhs   |-> Lin(<<Term(1, start_vars(jobs_data, a[1], a[2]))>>, a[3]),
     sense |-> "<=",
     rhs   |-> Lin(<<Term(1, start_vars(jobs_data, b[1], b[2])), Term(0 - H, z)>>, H)]

\* Mutant: the second constraint is relaxed by (1 - z) like the first, so
\* z = 0 relaxes both.
NoOverlap2_SameSide(jobs_data, a, b, z, H) ==
    [name  |-> <<"no_overlap_2", a[1], a[2], b[1], b[2]>>,
     lhs   |-> Lin(<<Term(1, start_vars(jobs_data, b[1], b[2]))>>, b[3]),
     sense |-> "<=",
     rhs   |-> Lin(<<Term(1, start_vars(jobs_data, a[1], a[2])), Term(0 - H, z)>>, H)]

\* Mutant: the second constraint has lost its big-M term and always binds.
NoOverlap2_NoRelax(jobs_data, a, b, z, H) ==
    [name  |-> <<"no_overlap_2", a[1], a[2], b[1], b[2]>>,
     lhs   |-> Lin(<<Term(1, start_vars(jobs_data, b[1], b[2]))>>, b[3]),
     sense |-> "<=",
     rhs   |-> Lin(<<Term(1, start_vars(jobs_data, a[1], a[2]))>>, 0)]

\* start[job2, task2] + dur2 <= start[job1, task1] + horizon * z
NoOverlap2(jobs_data, a, b, z, H) ==
    [name  |-> <<"no_overlap_2", a[1], a[2], b[1], b[2]>>,
     lhs   |-> Lin(<<Term(1, start_vars(jobs_data, b[1], b[2]))>>, b[3]),
     sense |-> "<=",
     rhs   |-> Lin(<<Term(1, start_vars(jobs_data, a[1], a[2])), Term(H, z)>>, 0)]

NoOverlapConstrs(jobs_data, num_machines, H) ==
    LET ps == MachinePairs(jobs_data, num_machines)
    IN  Flatten([k \in 1..Len(ps) |->
                   <<NoOverlap1(jobs_data, ps[k][1], ps[k][2], OrderVar(jobs_data, k), H),
                     NoOverlap2(jobs_data, ps[k][1], ps[k][2], OrderVar(jobs_data, k), H)>>])

\* Mutant: the makespan is bounded by each job's first task, not its last.
MakespanConstr_FirstTask(jobs_data, job_id) ==
    [name  |-> <<"makespan_job", job_id>>,
     lhs   |-> Lin(<<Term(1, makespan(jobs_data))>>, 0),
     sense |-> ">=",
     rhs   |-> Lin(<<Term(1, start_vars(jobs_data, job_id, 0))>>,
                   Duration(jobs_data[job_id + 1][1]))]

\* makespan >= start[job_id, len(job) - 1] + job[-1][1]
MakespanConstr(jobs_data, job_id) ==
    LET job == jobs_data[job_id + 1]
    IN  [name  |-> <<"makespan_job", job_id>>,
         lhs   |-> Lin(<<Term(1, makespan(jobs_data))>>, 0),
         sense |-> ">=",
         rhs   |-> Lin(<<Term(1, start_vars(jobs_data, job_id, Len(job) - 1))>>,
                       Duration(job[Len(job)]))]

MakespanConstrs(jobs_data) ==
    [j \in 1..Len(jobs_data) |-> MakespanConstr(jobs_data, j - 1)]

\* Mutant: the objective is the first start time instead of makespan.
JobShopObjective_FirstStart(jobs_data) == Lin(<<Term(1, 1)>>, 0)

\* model.setObjective(makespan, GRB.MINIMIZE)
JobShopObjective(jobs_data) == Lin(<<Term(1, makespan(jobs_data))>>, 0)

\* The Model after line 108: variables and constraints in creation order.
BuildJobShop(jobs_data, num_machines, H) ==
    [name    |-> "JobShop",
     vars    |-> StartVars(jobs_data) \o <<MakespanVar>> \o OrderVars(jobs_data, num_machines),
     constrs |-> PrecedenceConstrs(jobs_data)
                 \o NoOverlapConstrs(jobs_data, num_machines, H)
                 \o MakespanConstrs(jobs_data),
     obj     |-> JobShopObjective(jobs_data),
     sense   |-> "MINIMIZE"]

(***************************************************************************)
(* The engine behind model.optimize(): a black box held to its contract.   *)
(* OPTIMAL comes with values that satisfy every constraint and every       *)
(* variable's domain and reach the best objective; INFEASIBLE means no     *)
(* such values exist.  The satisfying assignments are enumerated one       *)
(* variable at a time, a constraint being tested as soon as all its        *)
(* variables have a value; the variables are taken in the order in which   *)
(* the constraints mention them, which changes the work and not the set.   *)
(* A variable without a value yet is held at 0.                            *)
(***************************************************************************)
Domain(vtype, cap) == IF vtype = "BINARY" THEN 0..1 ELSE 0..cap

RECURSIVE Dedup(_, _)
Dedup(s, seen) ==
    IF s = <<>> THEN <<>>
    ELSE IF Head(s) \in seen THEN Dedup(Tail(s), seen)
    ELSE <<Head(s)>> \o Dedup(Tail(s), seen \cup {Head(s)})

VarOrder(m) ==
    Dedup(Flatten([i \in 1..Len(m.constrs) |-> VarSeqOfConstr(m.constrs[i])])
          \o [k \in 1..Len(m.vars) |-> k], {})

\* The constraints that become testable once the k-th variable has a value.
ReadyConstrs(m, order, k) ==
    LET assigned == {order[i] : i \in 1..k}
    IN  {i \in 1..Len(m.constrs) :
            /\ order[k] \in VarsOfConstr(m.constrs[i])
            /\ VarsOfConstr(m.constrs[i]) \subseteq assigned}

\* The assignments of the first k variables that satisfy every constraint
\* over those variables alone; a constraint over no variable at all holds
\* or fails by itself.
RECURSIVE Partial(_, _, _, _)
Partial(m, cap, order, k) ==
    IF k = 0
    THEN IF \A i \in 1..Len(m.constrs) :
               VarsOfConstr(m.constrs[i]) = {} => Holds(m.constrs[i], <<>>)
         THEN {[v \in 1..Len(m.vars) |-> 0]}
         ELSE {}
    ELSE LET prev  == Partial(m, cap, order, k - 1)
             v     == order[k]
             dom   == Domain(m.vars[v].vtype, cap)
             cs    == {m.constrs[i] : i \in ReadyConstrs(m, order, k)}
         IN  {a \in UNION {{[p EXCEPT ![v] = d] : d \in dom} : p \in prev} :
                 \A c \in cs : Holds(c, a)}

\* Every assignment of the variables that satisfies the built constraints.
Feasible(m, cap) ==
    LET order == VarOrder(m)
    IN  Partial(m, cap, order, Len(order))

Objective(m, a) == Eval(m.obj, a)

Better(m, v, w) == IF m.sense = "MINIMIZE" THEN v < w ELSE v > w

BestValue(m, F) ==
    LET vals == {Objective(m, a) : a \in F}
    IN  CHOOSE v \in vals : \A w \in vals : ~Better(m, w, v)

Optimal(m, F) ==
    LET best == BestValue(m, F)
    IN  {a \in F : Objective(m, a) = best}

(***************************************************************************)
(* Job shop: the decoded schedule (main, lines 121-130).                   *)
(***************************************************************************)
\* list.sort(key=...) is stable: equal keys keep their order of insertion.
RECURSIVE InsertByStart(_, _)
InsertByStart(sorted, e) ==
    IF sorted = <<>> THEN <<e>>
    ELSE IF e[3] < Head(sorted)[3] THEN <<e>> \o sorted
    ELSE <<Head(sorted)>> \o InsertByStart(Tail(sorted), e)

\* Mutant: the lists stay in the order of the appends.
SortByStart_AsAppended(s) == s

RECURSIVE SortByStart(_)
SortByStart(s) ==
    IF s = <<>> THEN <<>>
    ELSE InsertByStart(SortByStart(SubSeq(s, 1, Len(s) - 1)), s[Len(s)])

\* schedule[machine].append((job_id, task_id, start_time, duration))
Extract(jobs_data, machine, x) ==
    LET mt == machine_tasks(jobs_data, machine)
    IN  [k \in 1..Len(mt) |->
           <<mt[k][1], mt[k][2], x[start_vars(jobs_data, mt[k][1], mt[k][2])], mt[k][3]>>]

DecodeSchedule(jobs_data, num_machines, x) ==
    [machine \in 0..(num_machines - 1) |-> SortByStart(Extract(jobs_data, machine, x))]

(***************************************************************************)
(* Job shop inputs the sidebar can hold: at least one job, at least one    *)
(* task per job, machine in 1..num_machines (stored minus one),            *)
(* duration >= 1.                                                          *)
(***************************************************************************)
Tasks(num_machines, budget) == (0..(num_machines - 1)) \X (1..budget)

RECURSIVE JobsWithin(_, _)
JobsWithin(num_machines, budget) ==
    IF budget < 1 THEN {}
    ELSE UNION {{<<t>>} \cup {<<t>> \o rest : rest \in JobsWithin(num_machines, budget - Duration(t))}
                  : t \in Tasks(num_machines, budget)}

JobDuration(job) == SumSeq([t \in 1..Len(job) |-> Duration(job[t])])

RECURSIVE JobListsWithin(_, _)
JobListsWithin(num_machines, budget) ==
    IF budget < 1 THEN {}
    ELSE UNION {{<<job>>} \cup {<<job>> \o rest :
                                  rest \in JobListsWithin(num_machines, budget - JobDuration(job))}
                  : job \in JobsWithin(num_machines, budget)}

\* The end-to-end example: 2 machines, job 0 = [(0, 3), (1, 2)], job 1 = [(1, 2), (0, 1)].
ExampleJobs == << << <<0, 3>>, <<1, 2>> >>, << <<1, 2>>, <<0, 1>> >> >>
ExampleJobShop == [jobs_data |-> ExampleJobs, num_machines |-> 2]

\* What the form holds when the page opens: 2 jobs, 3 machines, 2 tasks per
\* job, each on machine 1 (stored 0) with duration 1 (lines 33-45).
DefaultJobShop ==
    [jobs_data |-> << << <<0, 1>>, <<0, 1>> >>, << <<0, 1>>, <<0, 1>> >> >>, num_machines |-> 3]

JobShopInputs ==
    {ExampleJobShop, DefaultJobShop} \cup
    UNION {{[jobs_data |-> jd, num_machines |-> nm] : jd \in JobListsWithin(nm, MaxHorizon)}
             : nm \in 1..MaxMachines}

(***************************************************************************)
(* Job shop: the handler of the "Optimiser" button.                        *)
(***************************************************************************)
InitJobShop ==
    /\ page = "JobShop"
    /\ pc = "input"
    /\ input \in JobShopInputs
    /\ horizon = 0
    /\ model = NoModel
    /\ status = "LOADED"
    /\ X = NoValues
    /\ shown = NoResult
    /\ previous = NoModel
    /\ files = {}
    /\ process = NoProcess
    /\ usage = NoUsage

\* Lines 56-108: the horizon, then the model.
JobShopBuild ==
    /\ page = "JobShop" /\ pc = "input"
    /\ horizon' = Horizon(input.jobs_data)
    /\ model' = BuildJobShop(input.jobs_data, input.num_machines, Horizon(input.jobs_data))
    /\ pc' = "built"
    /\ UNCHANGED <<files, process, usage, previous, page, input, status, X, shown>>

IntCap == horizon + Slack

\* Line 113: model.optimize().  The engine ends OPTIMAL with best values,
\* INFEASIBLE when nothing satisfies the constraints, or is stopped early
\* (INTERRUPTED) holding no values or some satisfying assignment it found.
JobShopOptimize ==
    /\ page = "JobShop" /\ pc = "built"
    /\ pc' = "solved"
    /\ LET F == Feasible(model, IntCap)
       IN  \/ /\ F = {}
              /\ status' = "INFEASIBLE" /\ X' = NoValues
           \/ /\ F # {}
              /\ status' = "OPTIMAL" /\ X' \in Optimal(model, F)
           \/ /\ status' = "INTERRUPTED" /\ X' \in F \cup {NoValues}
    /\ UNCHANGED <<files, process, usage, previous, page, input, horizon, model, shown>>

\* Lines 116-133: the makespan metric and the per-machine schedule.
JobShopShow ==
    /\ page = "JobShop" /\ pc = "solved" /\ status = "OPTIMAL"
    /\ shown' = [kind     |-> "schedule",
                 makespan |-> X[makespan(input.jobs_data)],
                 schedule |-> DecodeSchedule(input.jobs_data, input.num_machines, X)]
    /\ pc' = "done"
    /\ UNCHANGED <<files, process, usage, previous, page, input, horizon, model, status, X>>

\* Lines 134-135: any other status.
JobShopError ==
    /\ page = "JobShop" /\ pc = "solved" /\ status # "OPTIMAL"
    /\ shown' = [kind |-> "error"]
    /\ pc' = "done"
    /\ UNCHANGED <<files, process, usage, previous, page, input, horizon, model, status, X>>

NextJobShop == JobShopBuild \/ JobShopOptimize \/ JobShopShow \/ JobShopError

Spec == InitJobShop /\ [][NextJobShop]_vars

(***************************************************************************)
(* Job shop: what the claims speak about.                                  *)
(***************************************************************************)
Jobs == input.jobs_data
Keys == TaskKeys(Jobs)
HasValues == page = "JobShop" /\ pc \in {"solved", "done"} /\ X # NoValues
ScheduleShown == page = "JobShop" /\ shown.kind = "schedule"

\* Per task, in the order of Keys: its start value, duration and machine.
Starts == [k \in 1..Len(Keys) |-> X[start_vars(Jobs, Keys[k][1], Keys[k][2])]] \o <<>>
Durations == [k \in 1..Len(Keys) |-> Duration(TaskOf(Jobs, Keys[k][1], Keys[k][2]))] \o <<>>
Machines == [k \in 1..Len(Keys) |-> Machine(TaskOf(Jobs, Keys[k][1], Keys[k][2]))] \o <<>>

\* The durations summed task by task, independently of `horizon`.
TotalDuration == SumSeq(Durations)

\* The entries <<job, task, start, duration>> the page has decoded.
Entries == UNION {{shown.schedule[m][i] : i \in 1..Len(shown.schedule[m])}
                    : m \in DOMAIN shown.schedule}
DecodedStart(entries, job_id, task_id) ==
    (CHOOSE e \in entries : e[1] = job_id /\ e[2] = task_id)[3]

SetMax(S) == CHOOSE v \in S : \A w \in S : w <= v
SetMin(S) == CHOOSE v \in S : \A w \in S : v <= w

\* Schedules in the plain sense: nonnegative integer starts, job order
\* respected, no two tasks of a machine at the same time.
TrueSchedules ==
    LET keys == Keys
        n    == Len(keys)
        d    == Durations
        consecutive == {k \in 1..(n - 1) : keys[k][1] = keys[k + 1][1]}
        sharing == LET mc == Machines
                   IN  {p \in (1..n) \X (1..n) : p[1] < p[2] /\ mc[p[1]] = mc[p[2]]}
    IN  {s \in [1..n -> 0..SumSeq(d)] :
            /\ \A k \in consecutive : s[k + 1] >= s[k] + d[k]
            /\ \A p \in sharing :
                  s[p[1]] + d[p[1]] <= s[p[2]] \/ s[p[2]] + d[p[2]] <= s[p[1]]}

TrueOptimum ==
    LET d == Durations
    IN  SetMin({SetMax({s[k] + d[k] : k \in 1..Len(d)}) : s \in TrueSchedules})

(* C1: whatever values satisfy the built constraints, two distinct tasks   *)
(* on the same machine occupy disjoint intervals [start, start+duration),  *)
(* and in the decoded schedule each machine's list, sorted by start, has   *)
(* no overlapping neighbours.                                              *)
C1_NoOverlap ==
    /\ HasValues =>
          LET st == Starts
              d  == Durations
              mc == Machines
          IN  \A k1 \in 1..Len(st) : \A k2 \in 1..Len(st) :
                 (k1 # k2 /\ mc[k1] = mc[k2])
                   => (st[k1] + d[k1] <= st[k2] \/ st[k2] + d[k2] <= st[k1])
    /\ ScheduleShown =>
          \A m \in DOMAIN shown.schedule : \A i \in 1..(Len(shown.schedule[m]) - 1) :
             shown.schedule[m][i][3] + shown.schedule[m][i][4] <= shown.schedule[m][i + 1][3]

\* A schedule is shown in which one machine runs two tasks of different jobs.
C1_Witness ==
    /\ ScheduleShown
    /\ \E m \in DOMAIN shown.schedule :
          /\ Len(shown.schedule[m]) >= 2
          /\ shown.schedule[m][1][1] # shown.schedule[m][2][1]

(* C2: in every decoded schedule, consecutive tasks i, i+1 of a job have   *)
(* start(i+1) >= start(i) + duration(i), also when both are on the same    *)
(* machine.                                                                *)
C2_Precedence ==
    ScheduleShown =>
       LET es == Entries
       IN  \A j \in 1..Len(Jobs) : \A t \in 1..(Len(Jobs[j]) - 1) :
              DecodedStart(es, j - 1, t) >= DecodedStart(es, j - 1, t - 1) + Duration(Jobs[j][t])

\* A schedule is shown for a job whose first two tasks share a machine.
C2_Witness ==
    /\ ScheduleShown
    /\ \E j \in 1..Len(Jobs) :
          Len(Jobs[j]) >= 2 /\ Machine(Jobs[j][1]) = Machine(Jobs[j][2])

(* C3: the big-M encoding with H = sum of the durations is exact: the      *)
(* built model has an optimum, and its minimum makespan is the minimum     *)
(* makespan over all schedules that respect job order and machine          *)
(* exclusivity.                                                            *)
C3_BigMExact ==
    (page = "JobShop" /\ pc = "solved" /\ status \in {"OPTIMAL", "INFEASIBLE"})
       => status = "OPTIMAL" /\ X[makespan(Jobs)] = TrueOptimum

\* An optimum is found for an instance with at least two ordering binaries.
C3_Witness ==
    /\ page = "JobShop" /\ pc = "solved" /\ status = "OPTIMAL"
    /\ Len(MachinePairs(Jobs, input.num_machines)) >= 2

(* C4: the makespan reported with the schedule equals the maximum over the *)
(* jobs of (start of the job's last task + its duration) in the decoded    *)
(* schedule.                                                               *)
C4_MakespanIsMax ==
    ScheduleShown =>
       LET es == Entries
       IN  shown.makespan =
              SetMax({DecodedStart(es, j - 1, Len(Jobs[j]) - 1) + Duration(Jobs[j][Len(Jobs[j])])
                        : j \in 1..Len(Jobs)})

\* A schedule is shown for two jobs that end at different times.
C4_Witness ==
    /\ ScheduleShown
    /\ Len(Jobs) >= 2
    /\ DecodedStart(Entries, 0, Len(Jobs[1]) - 1) + Duration(Jobs[1][Len(Jobs[1])])
         # DecodedStart(Entries, 1, Len(Jobs[2]) - 1) + Duration(Jobs[2][Len(Jobs[2])])

(* C5 as stated: the horizon is the sum of the durations and every         *)
(* assignment that satisfies the built constraints has                     *)
(* start + duration <= H for every task.                                   *)
C5_EveryFeasibleWithinHorizon ==
    /\ (page = "JobShop" /\ pc # "input") => horizon = TotalDuration
    /\ HasValues =>
          LET st == Starts
              d  == Durations
          IN  \A k \in 1..Len(st) : st[k] + d[k] <= horizon

(* C5 amended: the horizon is the sum of the durations and every optimal   *)
(* assignment (the only ones decoded) has start + duration <= H for every  *)
(* task.                                                                   *)
C5_OptimalWithinHorizon ==
    /\ (page = "JobShop" /\ pc # "input") => horizon = TotalDuration
    /\ (HasValues /\ status = "OPTIMAL") =>
          LET st == Starts
              d  == Durations
          IN  \A k \in 1..Len(st) : st[k] + d[k] <= horizon

\* An optimum in which some task ends exactly at the horizon.
C5_Witness ==
    /\ HasValues /\ status = "OPTIMAL"
    /\ Len(Keys) >= 2
    /\ \E k \in 1..Len(Keys) : Starts[k] + Durations[k] = horizon

(* C6: for every input the form can hold, the built model is feasible: the *)
(* solve never ends INFEASIBLE, so the error branch is never taken for     *)
(* infeasibility.                                                          *)
C6_Feasible ==
    (page = "JobShop" /\ pc \in {"solved", "done"}) => status # "INFEASIBLE"

\* A solve has ended OPTIMAL on an instance where three tasks share a machine.
C6_Witness ==
    /\ page = "JobShop" /\ pc = "solved" /\ status = "OPTIMAL"
    /\ \E m \in 0..(input.num_machines - 1) : Len(machine_tasks(Jobs, m)) >= 3

(* C7: for the example (2 machines, job 0 = [(0,3),(1,2)],                 *)
(* job 1 = [(1,2),(0,1)]) the model is feasible, a schedule with makespan  *)
(* <= 6 exists, the optimal makespan is 5 and the decoded schedule has no  *)
(* overlapping intervals on either machine.                                *)
C7_Example ==
    (page = "JobShop" /\ input = ExampleJobShop) =>
       /\ pc \in {"solved", "done"} => status # "INFEASIBLE"
       /\ (pc \in {"solved", "done"} /\ status = "OPTIMAL") =>
             X[makespan(Jobs)] = 5 /\ X[makespan(Jobs)] <= 6
       /\ ScheduleShown =>
             /\ shown.makespan = 5
             /\ \A m \in 0..1 : \A i \in 1..Len(shown.schedule[m]) :
                   \A k \in (i + 1)..Len(shown.schedule[m]) :
                      shown.schedule[m][i][3] + shown.schedule[m][i][4]
                         <= shown.schedule[m][k][3]

\* The example's schedule is shown, two tasks on each machine.
C7_Witness ==
    /\ ScheduleShown /\ input = ExampleJobShop
    /\ Len(shown.schedule[0]) = 2 /\ Len(shown.schedule[1]) = 2

(***************************************************************************)
(* Allocation: src/BudgetAllocation.py (one budget, a priority per         *)
(* project) and src/pages/BudgetAllocation.py (several resources, a        *)
(* priority per resource).  The units x[i] are CONTINUOUS; here they move  *)
(* on a grid of Unit steps per unit, so a value of the model is a number   *)
(* of steps and a constant n of the code is written Steps(n).  The weights *)
(* 1, 0.8, 0.5 are written in tenths.                                      *)
(***************************************************************************)
\* Grid resolution: steps per unit.
Unit == 2
\* Allocation inputs: the form's fields lie, in total, at most MaxExtra
\* above their minimum values.
MaxExtra == 3

\* num_projects = st.number_input(..., min_value=2, ...)
MinProjects == 2
\* num_resources = st.number_input(..., value=2, ...)
DefaultResources == 2

Steps(n) == Unit * n

\* 1 if priority == 1 else 0.8 if priority == 2 else 0.5, in tenths.
PriorityWeight(priority) ==
    IF priority = 1 THEN 10 ELSE IF priority = 2 THEN 8 ELSE 5

\* priority_weights = [... for priority in project_priorities]
priority_weights(project_priorities) ==
    [i \in 1..Len(project_priorities) |-> PriorityWeight(project_priorities[i])]

\* resource_weights = [... for priority in resource_priorities]
resource_weights(resource_priorities) ==
    [j \in 1..Len(resource_priorities) |-> PriorityWeight(resource_priorities[j])]

\* Mutant: the labels keep counting across the builds of a session.
ProjectVars_RunningLabels(num_projects) ==
    [i \in 1..num_projects |->
       [name  |-> <<"Project", i + (IF previous = NoModel THEN 0 ELSE num_projects)>>,
        vtype |-> "CONTINUOUS"]]

\* x = [model.addVar(vtype=GRB.CONTINUOUS, name=f"Project_{i+1}") ...]
ProjectVars(num_projects) ==
    [i \in 1..num_projects |-> [name |-> <<"Project", i>>, vtype |-> "CONTINUOUS"]]

\* sum(project_returns[i] * priority_weights[i] * x[i] ...), in tenths.
BudgetObjective(inp) ==
    LET w == priority_weights(inp.project_priorities)
    IN  Lin([i \in 1..Len(inp.project_returns) |->
               Term(inp.project_returns[i] * w[i], i)] \o <<>>, 0)

\* Mutant: the budget constraint counts units instead of costs.
ResourceLimit_NoCosts(inp) ==
    [name  |-> <<"Resource_Limit">>,
     lhs   |-> Lin([i \in 1..Len(inp.project_costs) |-> Term(1, i)] \o <<>>, 0),
     sense |-> "<=",
     rhs   |-> Lin(<<>>, Steps(inp.total_resources))]

\* sum(project_costs[i] * x[i] ...) <= total_resources
ResourceLimit(inp) ==
    [name  |-> <<"Resource_Limit">>,
     lhs   |-> Lin([i \in 1..Len(inp.project_costs) |-> Term(inp.project_costs[i], i)] \o <<>>, 0),
     sense |-> "<=",
     rhs   |-> Lin(<<>>, Steps(inp.total_resources))]

\* Mutant: a minimum above the maximum is lowered to the maximum.
MinUnitsConstr_Clamped(inp, i) ==
    [name  |-> <<"Min_Units_Project", i>>,
     lhs   |-> Lin(<<Term(1, i)>>, 0),
     sense |-> ">=",
     rhs   |-> Lin(<<>>, Steps(IF inp.project_min_units[i] > inp.project_max_units[i]
                                THEN inp.project_max_units[i]
                                ELSE inp.project_min_units[i]))]

\* x[i] >= project_min_units[i]   (project i of the code is i + 1 here)
MinUnitsConstr(inp, i) ==
    [name  |-> <<"Min_Units_Project", i>>,
     lhs   |-> Lin(<<Term(1, i)>>, 0),
     sense |-> ">=",
     rhs   |-> Lin(<<>>, Steps(inp.project_min_units[i]))]

\* Mutant: the maximum is imposed as another lower bound.
MaxUnitsConstr_AsMinimum(inp, i) ==
    [name  |-> <<"Max_Units_Project", i>>,
     lhs   |-> Lin(<<Term(1, i)>>, 0),
     sense |-> ">=",
     rhs   |-> Lin(<<>>, Steps(inp.project_max_units[i]))]

\* x[i] <= project_max_units[i]
MaxUnitsConstr(inp, i) ==
    [name  |-> <<"Max_Units_Project", i>>,
     lhs   |-> Lin(<<Term(1, i)>>, 0),
     sense |-> "<=",
     rhs   |-> Lin(<<>>, Steps(inp.project_max_units[i]))]

UnitsConstrs(inp) ==
    Flatten([i \in 1..Len(inp.project_returns) |->
               <<MinUnitsConstr(inp, i), MaxUnitsConstr(inp, i)>>])

\* The Model of src/BudgetAllocation.py after line 81.
BuildBudget(inp) ==
    [name    |-> "Resource_Allocation",
     vars    |-> ProjectVars(Len(inp.project_returns)),
     constrs |-> <<ResourceLimit(inp)>> \o UnitsConstrs(inp),
     obj     |-> BudgetObjective(inp),
     sense   |-> "MAXIMIZE"]

\* sum(project_returns[i] * x[i] ...): resource_weights is not part of it.
MultiObjective(inp) ==
    Lin([i \in 1..Len(inp.project_returns) |-> Term(inp.project_returns[i], i)] \o <<>>, 0)

\* sum(project_resource_needs[i][j] * x[i] ...) <= resource_availabilities[j]
\* (resource j of the code is j + 1 here)
MultiResourceLimit(inp, j) ==
    [name  |-> <<"Resource_Limit", j>>,
     lhs   |-> Lin([i \in 1..Len(inp.project_returns) |->
                      Term(inp.project_resource_needs[i][j], i)] \o <<>>, 0),
     sense |-> "<=",
     rhs   |-> Lin(<<>>, Steps(inp.resource_availabilities[j]))]

MultiResourceLimits(inp) ==
    [j \in 1..Len(inp.resource_availabilities) |-> MultiResourceLimit(inp, j)]

\* The Model of src/pages/BudgetAllocation.py after line 98.
BuildMulti(inp) ==
    [name    |-> "Resource_Allocation_Multi",
     vars    |-> ProjectVars(Len(inp.project_returns)),
     constrs |-> MultiResourceLimits(inp) \o UnitsConstrs(inp),
     obj     |-> MultiObjective(inp),
     sense   |-> "MAXIMIZE"]

(***************************************************************************)
(* Allocation: the decoded result.  The table holds f"{v:.2f}" strings,    *)
(* here the number of hundredths nearest to v; the chart holds the values  *)
(* themselves (in steps).                                                  *)
(***************************************************************************)
TwoDecimals(steps) == (200 * steps + Unit) \div (2 * Unit)

\* "Unités Allouées": f"{x[i].x:.2f}" and y=[x[i].x ...]
DecodeBudget(inp, x) ==
    [table |-> [i \in 1..Len(inp.project_returns) |-> TwoDecimals(x[i])],
     chart |-> [i \in 1..Len(inp.project_returns) |-> x[i]]]

\* f"{project_resource_needs[i][j] * x[i].x:.2f}" per project, and one
\* bar trace per resource with y=[project_resource_needs[i][j] * x[i].x ...]
DecodeMulti(inp, x) ==
    [table |-> [i \in 1..Len(inp.project_returns) |->
                  [j \in 1..Len(inp.resource_availabilities) |->
                     TwoDecimals(inp.project_resource_needs[i][j] * x[i])]],
     chart |-> [j \in 1..Len(inp.resource_availabilities) |->
                  [i \in 1..Len(inp.project_returns) |->
                     inp.project_resource_needs[i][j] * x[i]]]]

(***************************************************************************)
(* Allocation inputs the sidebars can hold.  Every field starts at the     *)
(* minimum its number_input allows and is raised by e[k]; the raises of an *)
(* instance sum to at most MaxExtra.                                       *)
(***************************************************************************)
RECURSIVE FieldsWithin(_, _)
FieldsWithin(n, budget) ==
    IF n = 0 THEN {<<>>}
    ELSE UNION {{<<d>> \o rest : rest \in FieldsWithin(n - 1, budget - d)} : d \in 0..budget}

\* src/BudgetAllocation.py lines 21-47: total_resources >= 1, and per
\* project cost >= 1, return >= 1, min_units >= 0, max_units >= 1,
\* priority >= 1.
BudgetInput(e) ==
    [total_resources    |-> 1 + e[1],
     project_costs      |-> [i \in 1..MinProjects |-> 1 + e[5 * i - 3]],
     project_returns    |-> [i \in 1..MinProjects |-> 1 + e[5 * i - 2]],
     project_min_units  |-> [i \in 1..MinProjects |-> e[5 * i - 1]],
     project_max_units  |-> [i \in 1..MinProjects |-> 1 + e[5 * i]],
     project_priorities |-> [i \in 1..MinProjects |-> 1 + e[5 * i + 1]]]

\* src/pages/BudgetAllocation.py lines 21-65: per resource availability >= 1
\* and priority >= 1; per project return >= 1, min_units >= 0,
\* max_units >= 1 and a need >= 0 of every resource.
MultiInput(e) ==
    LET R    == DefaultResources
        at(i) == 2 * R + (3 + R) * (i - 1)
    IN  [resource_availabilities |-> [j \in 1..R |-> 1 + e[2 * j - 1]],
         resource_priorities     |-> [j \in 1..R |-> 1 + e[2 * j]],
         project_returns         |-> [i \in 1..MinProjects |-> 1 + e[at(i) + 1]],
         project_min_units       |-> [i \in 1..MinProjects |-> e[at(i) + 2]],
         project_max_units       |-> [i \in 1..MinProjects |-> 1 + e[at(i) + 3]],
         project_resource_needs  |-> [i \in 1..MinProjects |->
                                        [j \in 1..R |-> e[at(i) + 3 + j]]]]

\* The end-to-end example: capacity 100, returns [10, 8], costs [2, 1],
\* min [0, 0], max [10, 10]; the priorities stay at the form's value 5.
ExampleBudget ==
    [total_resources    |-> 100,
     project_costs      |-> <<2, 1>>,
     project_returns    |-> <<10, 8>>,
     project_min_units  |-> <<0, 0>>,
     project_max_units  |-> <<10, 10>>,
     project_priorities |-> <<5, 5>>]

ExampleMulti ==
    [resource_availabilities |-> <<100>>,
     resource_priorities     |-> <<5>>,
     project_returns         |-> <<10, 8>>,
     project_min_units       |-> <<0, 0>>,
     project_max_units       |-> <<10, 10>>,
     project_resource_needs  |-> << <<2>>, <<1>> >>]

BudgetInputs ==
    {ExampleBudget} \cup {BudgetInput(e) : e \in FieldsWithin(1 + 5 * MinProjects, MaxExtra)}

MultiInputs ==
    {ExampleMulti} \cup
    {MultiInput(e) : e \in FieldsWithin(2 * DefaultResources
                                          + (3 + DefaultResources) * MinProjects, MaxExtra)}

(***************************************************************************)
(* Allocation: the handlers of the two "Optimiser" buttons.                *)
(***************************************************************************)
InitAllocation ==
    /\ \/ page = "BudgetAllocation" /\ input \in BudgetInputs
       \/ page = "pages/BudgetAllocation" /\ input \in MultiInputs
    /\ pc = "input"
    /\ horizon = 0
    /\ model = NoModel
    /\ status = "LOADED"
    /\ X = NoValues
    /\ shown = NoResult
    /\ previous = NoModel
    /\ files = {}
    /\ process = NoProcess
    /\ usage = NoUsage

\* src/BudgetAllocation.py lines 57-81.
BudgetBuild ==
    /\ page = "BudgetAllocation" /\ pc = "input"
    /\ model' = BuildBudget(input)
    /\ pc' = "built"
    /\ UNCHANGED <<files, process, usage, previous, page, input, horizon, status, X, shown>>

\* src/pages/BudgetAllocation.py lines 75-98.
MultiBuild ==
    /\ page = "pages/BudgetAllocation" /\ pc = "input"
    /\ model' = BuildMulti(input)
    /\ pc' = "built"
    /\ UNCHANGED <<files, process, usage, previous, page, input, horizon, status, X, shown>>

\* x has no upper bound in the engine; the exploration lets it range up to
\* Slack units above the largest maximum of the form.
UnitsCap ==
    Steps(Slack + (CHOOSE v \in {input.project_max_units[i] : i \in DOMAIN input.project_max_units} :
                     \A i \in DOMAIN input.project_max_units : input.project_max_units[i] <= v))

\* model.optimize() (line 88, resp. 103), the engine held to the contract
\* above.
AllocationOptimize ==
    /\ page \in {"BudgetAllocation", "pages/BudgetAllocation"} /\ pc = "built"
    /\ pc' = "solved"
    /\ LET F == Feasible(model, UnitsCap)
       IN  \/ /\ F = {}
              /\ status' = "INFEASIBLE" /\ X' = NoValues
           \/ /\ F # {}
              /\ status' = "OPTIMAL" /\ X' \in Optimal(model, F)
           \/ /\ status' = "INTERRUPTED" /\ X' \in F \cup {NoValues}
    /\ UNCHANGED <<files, process, usage, previous, page, input, horizon, model, shown>>

\* src/BudgetAllocation.py lines 92-125: the table and the bar chart.
BudgetShow ==
    /\ page = "BudgetAllocation" /\ pc = "solved" /\ status = "OPTIMAL"
    /\ shown' = [kind |-> "allocation"] @@ DecodeBudget(input, X)
    /\ pc' = "done"
    /\ UNCHANGED <<files, process, usage, previous, page, input, horizon, model, status, X>>

\* src/pages/BudgetAllocation.py lines 107-139.
MultiShow ==
    /\ page = "pages/BudgetAllocation" /\ pc = "solved" /\ status = "OPTIMAL"
    /\ shown' = [kind |-> "allocation"] @@ DecodeMulti(input, X)
    /\ pc' = "done"
    /\ UNCHANGED <<files, process, usage, previous, page, input, horizon, model, status, X>>

\* The else branch (lines 126-127, resp. 140-141): any other status.
AllocationError ==
    /\ page \in {"BudgetAllocation", "pages/BudgetAllocation"}
    /\ pc = "solved" /\ status # "OPTIMAL"
    /\ shown' = [kind |-> "error"]
    /\ pc' = "done"
    /\ UNCHANGED <<files, process, usage, previous, page, input, horizon, model, status, X>>

NextAllocation ==
    \/ BudgetBuild
    \/ MultiBuild
    \/ AllocationOptimize
    \/ BudgetShow
    \/ MultiShow
    \/ AllocationError

SpecAllocation == InitAllocation /\ [][NextAllocation]_vars

(***************************************************************************)
(* Allocation: what the claims speak about.                                *)
(***************************************************************************)
AllocationPages == {"BudgetAllocation", "pages/BudgetAllocation"}
AllocationShown == page \in AllocationPages /\ shown.kind = "allocation"
Projects == 1..Len(input.project_returns)

\* The resources of the instance, what a unit of project i consumes of
\* resource j, and what is available of it.
Resources ==
    IF page = "BudgetAllocation" THEN {1} ELSE 1..Len(input.resource_availabilities)
Need(i, j) ==
    IF page = "BudgetAllocation" THEN input.project_costs[i]
    ELSE input.project_resource_needs[i][j]
Capacity(j) ==
    IF page = "BudgetAllocation" THEN input.total_resources
    ELSE input.resource_availabilities[j]

\* Consumption of resource j under the values x, in steps.
Consumption(x, j) == SumSeq([i \in Projects |-> Need(i, j) * x[i]])

\* The priorities the form has collected.
CollectedPriorities ==
    IF page = "BudgetAllocation"
    THEN {input.project_priorities[i] : i \in Projects}
    ELSE {input.resource_priorities[j] : j \in Resources}

IsExample == page \in AllocationPages /\ input \in {ExampleBudget, ExampleMulti}

(* C8: whenever an optimal allocation is displayed, every project's units  *)
(* lie between its minimum and its maximum, and for every resource (the    *)
(* single budget, or each resource of the multi-resource page) the         *)
(* consumption summed over the projects is at most the capacity; the       *)
(* charted values say the same.                                            *)
C8_AllocationWithinBounds ==
    AllocationShown =>
       /\ \A i \in Projects :
             /\ Steps(input.project_min_units[i]) <= X[i]
             /\ X[i] <= Steps(input.project_max_units[i])
       /\ \A j \in Resources : Consumption(X, j) <= Steps(Capacity(j))
       /\ page = "BudgetAllocation" =>
             \A i \in Projects :
                /\ Steps(input.project_min_units[i]) <= shown.chart[i]
                /\ shown.chart[i] <= Steps(input.project_max_units[i])
       /\ page = "pages/BudgetAllocation" =>
             \A j \in Resources : SumSeq(shown.chart[j]) <= Steps(Capacity(j))

\* An allocation is displayed on the multi-resource page in which one
\* resource is used up, another is not, and a project stays strictly
\* between its minimum and its maximum.
C8_Witness ==
    /\ AllocationShown /\ page = "pages/BudgetAllocation"
    /\ \E j \in Resources : Consumption(X, j) = Steps(Capacity(j))
    /\ \E j \in Resources : Consumption(X, j) < Steps(Capacity(j))
    /\ \E i \in Projects :
          Steps(input.project_min_units[i]) < X[i] /\ X[i] < Steps(input.project_max_units[i])

(* C9: on both pages the objective handed to the engine is the sum over    *)
(* the projects of return x priority weight x units, with weight 1.0 for   *)
(* priority 1, 0.8 for priority 2, 0.5 from 3 on; so on either page a      *)
(* collected priority whose weight is below 1.0 leaves the objective       *)
(* different from the plain sum of return x units.                         *)
C9_PriorityWeightedObjective ==
    /\ (page = "BudgetAllocation" /\ pc # "input") =>
          /\ model.sense = "MAXIMIZE"
          /\ model.obj.const = 0
          /\ Len(model.obj.terms) = Len(input.project_returns)
          /\ \A i \in Projects :
                model.obj.terms[i] =
                   Term(input.project_returns[i] * PriorityWeight(input.project_priorities[i]), i)
    /\ (page = "pages/BudgetAllocation" /\ pc # "input") =>
          /\ model.sense = "MAXIMIZE"
          /\ (\E p \in CollectedPriorities : PriorityWeight(p) < 10) =>
                \E i \in Projects : model.obj.terms[i] # Term(input.project_returns[i], i)

(* C10 as stated: in the example (capacity 100, returns [10, 8], costs     *)
(* [2, 1], min [0, 0], max [10, 10]) the displayed optimum gives project 0 *)
(* its maximum of 10 units, consuming 20, and project 1 takes the          *)
(* remainder up to the capacity.                                           *)
C10_FillsRemainderToCapacity ==
    (AllocationShown /\ IsExample) =>
       /\ X[1] = Steps(10)
       /\ Need(1, 1) * X[1] = Steps(20)
       /\ Consumption(X, 1) = Steps(Capacity(1))

(* C10 amended: in the example the engine finds an optimum, and the        *)
(* displayed optimum gives project 0 its maximum of 10 units, consuming    *)
(* 20, and project 1 its maximum of 10 units, consuming 10; 70 of the      *)
(* capacity of 100 stay unused.                                            *)
C10_BothProjectsAtMaximum ==
    /\ (IsExample /\ pc = "solved" /\ status \in {"OPTIMAL", "INFEASIBLE"}) => status = "OPTIMAL"
    /\ (AllocationShown /\ IsExample) =>
          /\ X[1] = Steps(10)
          /\ Need(1, 1) * X[1] = Steps(20)
          /\ X[2] = Steps(10)
          /\ Consumption(X, 1) = Steps(30)
          /\ Steps(Capacity(1)) - Consumption(X, 1) = Steps(70)

\* The example's allocation is displayed.
C10_Witness ==
    /\ AllocationShown /\ IsExample
    /\ shown.table = IF page = "BudgetAllocation" THEN <<1000, 1000>>
                     ELSE << <<2000>>, <<1000>> >>

\* Some project's minimum exceeds its maximum.
MinAboveMax == \E i \in Projects : input.project_min_units[i] > input.project_max_units[i]

\* The built model bounds x[i] from below by exactly v.
HasLowerBound(i, v) ==
    \E k \in 1..Len(model.constrs) :
       /\ model.constrs[k].lhs = Lin(<<Term(1, i)>>, 0)
       /\ model.constrs[k].sense = ">="
       /\ model.constrs[k].rhs = Lin(<<>>, Steps(v))

\* The built model bounds x[i] from above by exactly v.
HasUpperBound(i, v) ==
    \E k \in 1..Len(model.constrs) :
       /\ model.constrs[k].lhs = Lin(<<Term(1, i)>>, 0)
       /\ model.constrs[k].sense = "<="
       /\ model.constrs[k].rhs = Lin(<<>>, Steps(v))

(* C11: on either allocation page, when some project's minimum exceeds its *)
(* maximum, the model is built with both bounds exactly as entered, the    *)
(* engine never reports OPTIMAL (it reports INFEASIBLE when it runs to the *)
(* end), no values exist, and the page ends showing the error and no       *)
(* table or chart.                                                         *)
C11_MinAboveMaxInfeasible ==
    (page \in AllocationPages /\ MinAboveMax) =>
       /\ pc # "input" =>
             \A i \in Projects :
                /\ HasLowerBound(i, input.project_min_units[i])
                /\ HasUpperBound(i, input.project_max_units[i])
       /\ pc \in {"solved", "done"} =>
             /\ status \in {"INFEASIBLE", "INTERRUPTED"}
             /\ X = NoValues
       /\ pc = "done" => shown = [kind |-> "error"]

\* The error is shown after an INFEASIBLE solve of an instance whose first
\* project has a minimum above its maximum.
C11_Witness ==
    /\ page \in AllocationPages /\ pc = "done"
    /\ input.project_min_units[1] > input.project_max_units[1]
    /\ status = "INFEASIBLE"
    /\ shown.kind = "error"

\* Input the design calls invalid: no project, no resource, a task on a
\* machine outside 0..num_machines-1, or a project whose minimum exceeds
\* its maximum.
InvalidInput ==
    IF page = "JobShop"
    THEN \E j \in 1..Len(input.jobs_data) : \E t \in 1..Len(input.jobs_data[j]) :
            Machine(input.jobs_data[j][t]) \notin 0..(input.num_machines - 1)
    ELSE \/ Len(input.project_returns) = 0
         \/ Resources = {}
         \/ MinAboveMax

(* C12: invalid input (no project, no resource, a task on a machine        *)
(* outside 0..num_machines-1, a project with minimum above maximum) is     *)
(* rejected before model construction: no Model is ever built for it and   *)
(* the engine is never run on it.                                          *)
C12_InvalidInputRejected ==
    InvalidInput => (pc \in {"input", "done"} /\ model = NoModel /\ status = "LOADED")

(***************************************************************************)
(* Facility location: solve_facility_location of src/FacilityLocation.py   *)
(* and src/pages/FacilityLocation.py; coverage:                            *)
(* solve_coverage_optimization of src/facilityLocation.py.  Customers and  *)
(* facilities keep their 0-based indices c and f.  A fraction assign[c, f] *)
(* moves on the grid of Unit steps per 1, so the constant 1 is Steps(1);   *)
(* a distance is kept to 1/DistanceScale, and the objective is written in  *)
(* those units.                                                            *)
(***************************************************************************)
\* Resolution of a distance: DistanceScale parts per unit of length.
DistanceScale == 100

\* The integer part of the square root of n, looked for in 0..top.
ISqrt(n, top) == CHOOSE r \in 0..top : r * r <= n /\ n < (r + 1) * (r + 1)

Abs(v) == IF v < 0 THEN 0 - v ELSE v

\* sqrt(dx * dx + dy * dy), in 1/DistanceScale
compute_distance(loc1, loc2) ==
    LET dx == loc1[1] - loc2[1]
        dy == loc1[2] - loc2[2]
    IN  ISqrt(DistanceScale * DistanceScale * (dx * dx + dy * dy),
              DistanceScale * (Abs(dx) + Abs(dy)))

\* list(product(range(num_customers), range(num_facilities)))
cartesian_prod(num_customers, num_facilities) ==
    [k \in 1..(num_customers * num_facilities) |->
       <<(k - 1) \div num_facilities, (k - 1) % num_facilities>>]

\* shipping_cost[c, f] = cost_per_mile * compute_distance(customers[c], facilities[f])
shipping_cost(customers, facilities, cost_per_mile, c, f) ==
    cost_per_mile * compute_distance(customers[c + 1], facilities[f + 1])

\* select = m.addVars(num_facilities, vtype=GRB.BINARY, name='Select')
SelectVars(num_facilities) ==
    [k \in 1..num_facilities |-> [name |-> <<"Select", k - 1>>, vtype |-> "BINARY"]]

\* assign = m.addVars(cartesian_prod, ub=1, vtype=GRB.CONTINUOUS, name='Assign')
AssignVars(num_customers, num_facilities) ==
    LET cp == cartesian_prod(num_customers, num_facilities)
    IN  [k \in 1..Len(cp) |->
           [name |-> <<"Assign", cp[k][1], cp[k][2]>>, vtype |-> "CONTINUOUS", ub |-> Steps(1)]]

\* The columns: select[f] first, then assign[c, f] (or cover[c, f]) row by row.
select(f) == f + 1
assign(num_facilities, c, f) == num_facilities + c * num_facilities + f + 1

\* Mutant: the link to the facility's selection is left out.
Setup2ship_Unlinked(num_facilities, c, f) ==
    [name  |-> <<"Setup2ship", c, f>>,
     lhs   |-> Lin(<<Term(1, assign(num_facilities, c, f))>>, 0),
     sense |-> "<=",
     rhs   |-> Lin(<<>>, Steps(1))]

\* assign[(c, f)] <= select[f]
Setup2ship(num_facilities, c, f) ==
    [name  |-> <<"Setup2ship", c, f>>,
     lhs   |-> Lin(<<Term(1, assign(num_facilities, c, f))>>, 0),
     sense |-> "<=",
     rhs   |-> Lin(<<Term(Steps(1), select(f))>>, 0)]

\* Mutant: every customer has to be served twice over.
Demand_Twice(num_facilities, c) ==
    [name  |-> <<"Demand", c>>,
     lhs   |-> Lin([k \in 1..num_facilities |->
                      Term(1, assign(num_facilities, c, k - 1))] \o <<>>, 0),
     sense |-> "=",
     rhs   |-> Lin(<<>>, Steps(2))]

\* quicksum(assign[(c, f)] for f in range(num_facilities)) == 1
Demand(num_facilities, c) ==
    [name  |-> <<"Demand", c>>,
     lhs   |-> Lin([k \in 1..num_facilities |->
                      Term(1, assign(num_facilities, c, k - 1))] \o <<>>, 0),
     sense |-> "=",
     rhs   |-> Lin(<<>>, Steps(1))]

\* setup_cost[f] * select[f] summed + shipping_cost[c, f] * assign[c, f] summed
FacilityObjective(customers, facilities, setup_cost, cost_per_mile) ==
    LET nf == Len(facilities)
        cp == cartesian_prod(Len(customers), nf)
    IN  Lin(([k \in 1..nf |-> Term(Steps(DistanceScale * setup_cost[k]), select(k - 1))]
             \o [k \in 1..Len(cp) |->
                   Term(shipping_cost(customers, facilities, cost_per_mile, cp[k][1], cp[k][2]),
                        assign(nf, cp[k][1], cp[k][2]))]) \o <<>>, 0)

\* The Model of solve_facility_location before m.optimize().
BuildFacility(customers, facilities, setup_cost, cost_per_mile) ==
    LET nf == Len(facilities)
        nc == Len(customers)
        cp == cartesian_prod(nc, nf)
    IN  [name    |-> "facility_location",
         vars    |-> SelectVars(nf) \o AssignVars(nc, nf),
         constrs |-> [k \in 1..Len(cp) |-> Setup2ship(nf, cp[k][1], cp[k][2])]
                     \o [k \in 1..nc |-> Demand(nf, k - 1)],
         obj     |-> FacilityObjective(customers, facilities, setup_cost, cost_per_mile),
         sense   |-> "MINIMIZE"]

(***************************************************************************)
(* src/FacilityLocation.py: the same problem with the objective written    *)
(* with tupledict.prod.  select and assign are tupledicts: keys in the     *)
(* order of creation, each with its column.                                *)
(***************************************************************************)
\* select = m.addVars(num_facilities, ...): keys 0..num_facilities-1
SelectDict(num_facilities) ==
    [k \in 1..num_facilities |-> [key |-> k - 1, col |-> select(k - 1)]]

\* assign = m.addVars(cartesian_prod, ...): keys (c, f)
AssignDict(num_customers, num_facilities) ==
    LET cp == cartesian_prod(num_customers, num_facilities)
    IN  [k \in 1..Len(cp) |-> [key |-> cp[k], col |-> assign(num_facilities, cp[k][1], cp[k][2])]]

\* Mutant: the coefficients are paired with the keys in reverse.
prod_Reversed(tupledict, coeff) ==
    [k \in 1..Len(tupledict) |->
       Term(coeff[tupledict[Len(tupledict) + 1 - k].key], tupledict[k].col)]

\* tupledict.prod(coeff): one term coeff[key] * var per key of the tupledict
prod(tupledict, coeff) ==
    [k \in 1..Len(tupledict) |-> Term(coeff[tupledict[k].key], tupledict[k].col)]

\* select.prod(setup_cost) + assign.prod(shipping_cost); setup_cost is a
\* list indexed from 0, shipping_cost a dict over cartesian_prod.
FacilityObjectiveProd(customers, facilities, setup_cost, cost_per_mile) ==
    LET nf    == Len(facilities)
        nc    == Len(customers)
        pairs == {cartesian_prod(nc, nf)[k] : k \in 1..(nc * nf)}
        setup == [f \in 0..(nf - 1) |-> Steps(DistanceScale * setup_cost[f + 1])]
        ship  == [p \in pairs |->
                    shipping_cost(customers, facilities, cost_per_mile, p[1], p[2])]
    IN  Lin((prod(SelectDict(nf), setup) \o prod(AssignDict(nc, nf), ship)) \o <<>>, 0)

\* The Model of solve_facility_location (src/FacilityLocation.py lines
\* 17-36) before m.optimize().
BuildFacilityProd(customers, facilities, setup_cost, cost_per_mile) ==
    LET nf == Len(facilities)
        nc == Len(customers)
        cp == cartesian_prod(nc, nf)
    IN  [name    |-> "facility_location",
         vars    |-> SelectVars(nf) \o AssignVars(nc, nf),
         constrs |-> [k \in 1..Len(cp) |-> Setup2ship(nf, cp[k][1], cp[k][2])]
                     \o [k \in 1..nc |-> Demand(nf, k - 1)],
         obj     |-> FacilityObjectiveProd(customers, facilities, setup_cost, cost_per_mile),
         sense   |-> "MINIMIZE"]

\* cover = m.addVars(num_customers, num_facilities, vtype=GRB.BINARY, name='Cover')
CoverVars(num_customers, num_facilities) ==
    LET cp == cartesian_prod(num_customers, num_facilities)
    IN  [k \in 1..Len(cp) |-> [name |-> <<"Cover", cp[k][1], cp[k][2]>>, vtype |-> "BINARY"]]

cover(num_facilities, c, f) == num_facilities + c * num_facilities + f + 1

\* quicksum(cover[c, f] for f in range(num_facilities)) == 1
Coverage(num_facilities, c) ==
    [name  |-> <<"Coverage", c>>,
     lhs   |-> Lin([k \in 1..num_facilities |->
                      Term(1, cover(num_facilities, c, k - 1))] \o <<>>, 0),
     sense |-> "=",
     rhs   |-> Lin(<<>>, 1)]

\* Mutant: the link to the facility's selection is left out.
FacilitySetup_Unlinked(num_facilities, c, f) ==
    [name  |-> <<"FacilitySetup", c, f>>,
     lhs   |-> Lin(<<Term(1, cover(num_facilities, c, f))>>, 0),
     sense |-> "<=",
     rhs   |-> Lin(<<>>, 1)]

\* cover[c, f] <= select[f]
FacilitySetup(num_facilities, c, f) ==
    [name  |-> <<"FacilitySetup", c, f>>,
     lhs   |-> Lin(<<Term(1, cover(num_facilities, c, f))>>, 0),
     sense |-> "<=",
     rhs   |-> Lin(<<Term(1, select(f))>>, 0)]

\* Mutant: nothing is minimised.
CoverageObjective_Constant(num_facilities) == Lin(<<>>, 1)

\* quicksum(select[f] for f in range(num_facilities))
CoverageObjective(num_facilities) ==
    Lin([k \in 1..num_facilities |-> Term(1, select(k - 1))] \o <<>>, 0)

\* np.sqrt((facility[0] - customer[0])**2 + (facility[1] - customer[1])**2) <= radius
is_within_coverage(facility, customer, radius) ==
    LET dx == facility[1] - customer[1]
        dy == facility[2] - customer[2]
    IN  radius >= 0 /\ dx * dx + dy * dy <= radius * radius

\* Mutant: a pair outside the customer's radius is forbidden.
BuildCoverage_WithinRadius(customers, facilities, radii) ==
    LET nf == Len(facilities)
        nc == Len(customers)
        cp == cartesian_prod(nc, nf)
    IN  [name    |-> "coverage_optimization",
         vars    |-> SelectVars(nf) \o CoverVars(nc, nf),
         constrs |-> [k \in 1..nc |-> Coverage(nf, k - 1)]
                     \o [k \in 1..Len(cp) |->
                           IF is_within_coverage(facilities[cp[k][2] + 1], customers[cp[k][1] + 1],
                                                 radii[cp[k][1] + 1])
                           THEN FacilitySetup(nf, cp[k][1], cp[k][2])
                           ELSE [name  |-> <<"OutOfReach", cp[k][1], cp[k][2]>>,
                                 lhs   |-> Lin(<<Term(1, cover(nf, cp[k][1], cp[k][2]))>>, 0),
                                 sense |-> "<=",
                                 rhs   |-> Lin(<<>>, 0)]],
         obj     |-> CoverageObjective(nf),
         sense   |-> "MINIMIZE"]

\* The Model of solve_coverage_optimization before m.optimize(); radii and
\* the coordinates are not read.
BuildCoverage(customers, facilities, radii) ==
    LET nf == Len(facilities)
        nc == Len(customers)
        cp == cartesian_prod(nc, nf)
    IN  [name    |-> "coverage_optimization",
         vars    |-> SelectVars(nf) \o CoverVars(nc, nf),
         constrs |-> [k \in 1..nc |-> Coverage(nf, k - 1)]
                     \o [k \in 1..Len(cp) |-> FacilitySetup(nf, cp[k][1], cp[k][2])],
         obj     |-> CoverageObjective(nf),
         sense   |-> "MINIMIZE"]

(***************************************************************************)
(* Facility location and coverage: the values read back and the decoders.  *)
(* A value var.x is held in units of 1e-7: One is 1.0, Epsilon is 1e-6,    *)
(* Half is 0.5.                                                            *)
(***************************************************************************)
One == 10000000
\* abs(select[f].x) > 1e-6, abs(assign[c, f].x) > 1e-6
Epsilon == 10
\* select[f].x > 0.5, cover[c, f].x > 0.5
Half == 5000000

\* var.x for the solved values x of model m: a binary column holds 0 or 1,
\* a continuous one a number of steps.
VarX(m, x) ==
    [v \in 1..Len(m.vars) |->
       IF m.vars[v].vtype = "BINARY" THEN x[v] * One ELSE (x[v] * One) \div Unit]

\* The members of S below n, in ascending order.
RECURSIVE Ascending(_, _)
Ascending(S, n) ==
    IF n = 0 THEN <<>>
    ELSE Ascending(S, n - 1) \o (IF (n - 1) \in S THEN <<n - 1>> ELSE <<>>)

\* selected_facilities = [f for f in range(num_facilities) if abs(select[f].x) > 1e-6]
\* shipments = {(c, f): assign[c, f].x for c, f in cartesian_prod if abs(assign[c, f].x) > 1e-6}
DecodeFacility(num_customers, num_facilities, xs) ==
    LET cp   == cartesian_prod(num_customers, num_facilities)
        kept == {cp[k] : k \in {i \in 1..Len(cp) :
                                  Abs(xs[assign(num_facilities, cp[i][1], cp[i][2])]) > Epsilon}}
    IN  [selected_facilities |->
            Ascending({f \in 0..(num_facilities - 1) : Abs(xs[select(f)]) > Epsilon},
                      num_facilities),
         shipments |-> [p \in kept |-> xs[assign(num_facilities, p[1], p[2])]]]

\* src/FacilityLocation.py lines 42-43:
\* selected_facilities = [f for f in range(num_facilities) if abs(select[f].x) > 1e-6]
\* shipments = {(c, f): assign[c, f].x for c, f in cartesian_prod if abs(assign[c, f].x) > 1e-6}
DecodeFacilityProd(num_customers, num_facilities, xs) ==
    LET cp  == cartesian_prod(num_customers, num_facilities)
        sel == SelectSeq([k \in 1..num_facilities |-> k - 1],
                         LAMBDA f : Abs(xs[select(f)]) > Epsilon)
        at  == SelectSeq(cp, LAMBDA p : Abs(xs[assign(num_facilities, p[1], p[2])]) > Epsilon)
    IN  [selected_facilities |-> sel,
         shipments |-> [p \in {at[k] : k \in 1..Len(at)} |->
                          xs[assign(num_facilities, p[1], p[2])]]]

\* selected_facilities = [f for f in range(num_facilities) if select[f].x > 0.5]
\* coverage = {(c, f): cover[c, f].x for c in range(num_customers)
\*             for f in selected_facilities if cover[c, f].x > 0.5}
DecodeCoverage(num_customers, num_facilities, xs) ==
    LET sel  == {f \in 0..(num_facilities - 1) : xs[select(f)] > Half}
        kept == {p \in (0..(num_customers - 1)) \X sel :
                    xs[cover(num_facilities, p[1], p[2])] > Half}
    IN  [selected_facilities |-> Ascending(sel, num_facilities),
         coverage |-> [p \in kept |-> xs[cover(num_facilities, p[1], p[2])]]]

(***************************************************************************)
(* Facility location and coverage inputs the sidebars can hold: at least   *)
(* one customer and one facility; coordinates, setup costs, radii and the  *)
(* rate are numbers, here naturals that sum to at most MaxSpread over the  *)
(* instance.                                                               *)
(***************************************************************************)
MaxSpread == 1
MaxFacilities == 2
\* st.session_state.num_customers = 2
DefaultCustomers == 2

FacilityInput(nc, nf, e) ==
    [customers     |-> [i \in 1..nc |-> <<e[2 * i - 1], e[2 * i]>>],
     facilities    |-> [i \in 1..nf |-> <<e[2 * nc + 3 * i - 2], e[2 * nc + 3 * i - 1]>>],
     setup_cost    |-> [i \in 1..nf |-> e[2 * nc + 3 * i]],
     cost_per_mile |-> e[2 * nc + 3 * nf + 1]]

CoverageInput(nc, nf, e) ==
    [customers  |-> [i \in 1..nc |-> <<e[3 * i - 2], e[3 * i - 1]>>],
     radii      |-> [i \in 1..nc |-> e[3 * i]],
     facilities |-> [i \in 1..nf |-> <<e[3 * nc + 2 * i - 1], e[3 * nc + 2 * i]>>]]

LocationShapes == (1..DefaultCustomers) \X (1..MaxFacilities)

\* The setup cost field has no minimum: the last family has every facility
\* at a cost of -1.
FacilityInputs ==
    UNION {{FacilityInput(s[1], s[2], e) : e \in FieldsWithin(2 * s[1] + 3 * s[2] + 1, MaxSpread)}
             : s \in LocationShapes}
    \cup {[FacilityInput(s[1], s[2], [k \in 1..(2 * s[1] + 3 * s[2] + 1) |-> 0])
             EXCEPT !.setup_cost = [i \in 1..s[2] |-> 0 - 1]] : s \in LocationShapes}

CoverageInputs ==
    UNION {{CoverageInput(s[1], s[2], e) : e \in FieldsWithin(3 * s[1] + 2 * s[2], MaxSpread)}
             : s \in LocationShapes}

(***************************************************************************)
(* Facility location and coverage: the handlers of the "Résoudre" button   *)
(* (src/pages/FacilityLocation.py lines 164-177, src/facilityLocation.py   *)
(* lines 154-163).  Neither handler looks at m.status.                     *)
(***************************************************************************)
LocationPages == {"pages/FacilityLocation", "FacilityLocation", "facilityLocation"}

InitLocation ==
    /\ \/ page \in {"pages/FacilityLocation", "FacilityLocation"} /\ input \in FacilityInputs
       \/ page = "facilityLocation" /\ input \in CoverageInputs
    /\ pc = "input"
    /\ horizon = 0
    /\ model = NoModel
    /\ status = "LOADED"
    /\ X = NoValues
    /\ shown = NoResult
    /\ previous = NoModel
    /\ files = {}
    /\ process = NoProcess
    /\ usage = NoUsage

\* solve_facility_location lines 17-40.
FacilityBuild ==
    /\ page = "pages/FacilityLocation" /\ pc = "input"
    /\ model' = BuildFacility(input.customers, input.facilities,
                              input.setup_cost, input.cost_per_mile)
    /\ pc' = "built"
    /\ UNCHANGED <<files, process, usage, previous, page, input, horizon, status, X, shown>>

\* solve_facility_location of src/FacilityLocation.py, lines 17-36.
FacilityProdBuild ==
    /\ page = "FacilityLocation" /\ pc = "input"
    /\ model' = BuildFacilityProd(input.customers, input.facilities,
                                  input.setup_cost, input.cost_per_mile)
    /\ pc' = "built"
    /\ UNCHANGED <<files, process, usage, previous, page, input, horizon, status, X, shown>>

\* solve_coverage_optimization lines 13-31.
CoverageBuild ==
    /\ page = "facilityLocation" /\ pc = "input"
    /\ model' = BuildCoverage(input.customers, input.facilities, input.radii)
    /\ pc' = "built"
    /\ UNCHANGED <<files, process, usage, previous, page, input, horizon, status, X, shown>>

\* m.optimize() (line 43, resp. 34), the engine held to the contract above;
\* assign has ub=1, the other columns are binary.
LocationOptimize ==
    /\ page \in LocationPages /\ pc = "built"
    /\ pc' = "solved"
    /\ LET F == Feasible(model, Steps(1))
       IN  \/ /\ F = {}
              /\ status' = "INFEASIBLE" /\ X' = NoValues
           \/ /\ F # {}
              /\ status' = "OPTIMAL" /\ X' \in Optimal(model, F)
           \/ /\ status' = "INTERRUPTED" /\ X' \in F \cup {NoValues}
    /\ UNCHANGED <<files, process, usage, previous, page, input, horizon, model, shown>>

\* Lines 46-49 and 167-177: the values are read whatever the status, then
\* the selected facilities and the shipment plan are written.
FacilityShow ==
    /\ page = "pages/FacilityLocation" /\ pc = "solved" /\ X # NoValues
    /\ shown' = [kind |-> "facility"]
                  @@ DecodeFacility(Len(input.customers), Len(input.facilities), VarX(model, X))
    /\ pc' = "done"
    /\ UNCHANGED <<files, process, usage, previous, page, input, horizon, model, status, X>>

\* src/FacilityLocation.py lines 42-45 and 143-157.
FacilityProdShow ==
    /\ page = "FacilityLocation" /\ pc = "solved" /\ X # NoValues
    /\ shown' = [kind |-> "facility"]
                  @@ DecodeFacilityProd(Len(input.customers), Len(input.facilities), VarX(model, X))
    /\ pc' = "done"
    /\ UNCHANGED <<files, process, usage, previous, page, input, horizon, model, status, X>>

\* Lines 37-40 and 157-163 of src/facilityLocation.py.
CoverageShow ==
    /\ page = "facilityLocation" /\ pc = "solved" /\ X # NoValues
    /\ shown' = [kind |-> "coverage"]
                  @@ DecodeCoverage(Len(input.customers), Len(input.facilities), VarX(model, X))
    /\ pc' = "done"
    /\ UNCHANGED <<files, process, usage, previous, page, input, horizon, model, status, X>>

\* select[f].x without a solution raises; nothing catches it in main.
LocationRaise ==
    /\ page \in LocationPages /\ pc = "solved" /\ X = NoValues
    /\ shown' = [kind |-> "exception"]
    /\ pc' = "done"
    /\ UNCHANGED <<files, process, usage, previous, page, input, horizon, model, status, X>>

NextLocation ==
    \/ FacilityBuild
    \/ FacilityProdBuild
    \/ CoverageBuild
    \/ LocationOptimize
    \/ FacilityShow
    \/ FacilityProdShow
    \/ CoverageShow
    \/ LocationRaise

SpecLocation == InitLocation /\ [][NextLocation]_vars

(***************************************************************************)
(* Facility location and coverage: what the claims speak about.            *)
(***************************************************************************)
Customers == 0..(Len(input.customers) - 1)
Facilities == 0..(Len(input.facilities) - 1)
NumFacilities == Len(input.facilities)
FacilityShown == page = "pages/FacilityLocation" /\ shown.kind = "facility"
CoverageShown == page = "facilityLocation" /\ shown.kind = "coverage"

\* The facilities in the decoded list.
SelectedSet == {shown.selected_facilities[k] : k \in 1..Len(shown.selected_facilities)}

(* C13: facility location, any input with at least one customer and one    *)
(* facility: in values the engine returns, each customer's fractions over  *)
(* the facilities sum to 1 within 1e-6, and every (customer, facility)     *)
(* pair of the decoded shipments has its facility in the decoded list of   *)
(* selected facilities.                                                    *)
C13_FractionsSumToOne ==
    /\ (page = "pages/FacilityLocation" /\ pc \in {"solved", "done"} /\ X # NoValues) =>
          LET xs == VarX(model, X)
          IN  \A c \in Customers :
                 Abs(SumSeq([k \in 1..NumFacilities |-> xs[assign(NumFacilities, c, k - 1)]])
                     - One) <= Epsilon
    /\ FacilityShown => \A p \in DOMAIN shown.shipments : p[2] \in SelectedSet

\* An optimal plan is shown that splits a customer between two facilities.
C13_Witness ==
    /\ FacilityShown /\ status = "OPTIMAL"
    /\ \E p \in DOMAIN shown.shipments : 0 < shown.shipments[p] /\ shown.shipments[p] < One
    /\ Len(shown.selected_facilities) = 2

(***************************************************************************)
(* The decoders as functions of the values read: lines 46-47 of            *)
(* src/pages/FacilityLocation.py and 37-38 of src/facilityLocation.py      *)
(* applied to values at and around 0, 0.5 and 1.  Here X holds the values  *)
(* var.x themselves, in units of 1e-7.                                     *)
(***************************************************************************)
\* How far from 0, 0.5 and 1 the values go (1e-5, the engine's integrality
\* tolerance, in units of 1e-7).
Tolerance == 100

Offsets == {0, 1, Epsilon - 1, Epsilon, Epsilon + 1, Tolerance \div 2, Tolerance}

SolvedValues ==
    UNION {{o, 0 - o, Half - o, Half + o, One - o, One + o} : o \in Offsets}

\* One customer and one facility: the columns are select[0] and
\* assign[0, 0] (or cover[0, 0]).
InitDecode ==
    /\ \/ /\ page = "pages/FacilityLocation"
          /\ input = FacilityInput(1, 1, [k \in 1..6 |-> 0])
          /\ model = BuildFacility(input.customers, input.facilities,
                                   input.setup_cost, input.cost_per_mile)
       \/ /\ page = "facilityLocation"
          /\ input = CoverageInput(1, 1, [k \in 1..5 |-> 0])
          /\ model = BuildCoverage(input.customers, input.facilities, input.radii)
    /\ pc = "values"
    /\ horizon = 0
    /\ status = "OPTIMAL"
    /\ X \in [1..2 -> SolvedValues]
    /\ shown = NoResult
    /\ previous = NoModel
    /\ files = {}
    /\ process = NoProcess
    /\ usage = NoUsage

\* Lines 46-47 of solve_facility_location.
FacilityDecodeValues ==
    /\ page = "pages/FacilityLocation" /\ pc = "values"
    /\ shown' = [kind |-> "facility"]
                  @@ DecodeFacility(Len(input.customers), Len(input.facilities), X)
    /\ pc' = "decoded"
    /\ UNCHANGED <<files, process, usage, previous, page, input, horizon, model, status, X>>

\* Lines 37-38 of solve_coverage_optimization.
CoverageDecodeValues ==
    /\ page = "facilityLocation" /\ pc = "values"
    /\ shown' = [kind |-> "coverage"]
                  @@ DecodeCoverage(Len(input.customers), Len(input.facilities), X)
    /\ pc' = "decoded"
    /\ UNCHANGED <<files, process, usage, previous, page, input, horizon, model, status, X>>

NextDecode == FacilityDecodeValues \/ CoverageDecodeValues

SpecDecode == InitDecode /\ [][NextDecode]_vars

(* C14: the facility location decoder reports a facility as selected       *)
(* exactly when its selection value is > 1 - 1e-6, and a (customer,        *)
(* facility) pair as a shipment exactly when its fraction is > 1e-6.       *)
C14_FacilityThresholds ==
    (FacilityShown /\ pc = "decoded") =>
       /\ \A f \in Facilities : f \in SelectedSet <=> X[select(f)] > One - Epsilon
       /\ \A c \in Customers : \A f \in Facilities :
             <<c, f>> \in DOMAIN shown.shipments <=> X[assign(NumFacilities, c, f)] > Epsilon

(* C15: on every binary decode path (facility selection of the facility    *)
(* location decoder, facility selection and cover pairs of the coverage    *)
(* decoder) a value of 0.5 + 1e-7 decodes as selected and a value of       *)
(* 0.5 - 1e-7 as not selected.                                             *)
C15_HalfIsTheBoundary ==
    /\ ((FacilityShown \/ CoverageShown) /\ pc = "decoded") =>
          \A f \in Facilities :
             /\ X[select(f)] = Half + 1 => f \in SelectedSet
             /\ X[select(f)] = Half - 1 => f \notin SelectedSet
    /\ (CoverageShown /\ pc = "decoded") =>
          \A c \in Customers : \A f \in SelectedSet :
             /\ X[cover(NumFacilities, c, f)] = Half + 1 => <<c, f>> \in DOMAIN shown.coverage
             /\ X[cover(NumFacilities, c, f)] = Half - 1 => <<c, f>> \notin DOMAIN shown.coverage

(* C16: coverage, any input with at least one customer and one facility:   *)
(* the decoded result gives every customer exactly one facility, that      *)
(* facility is in the decoded list of selected facilities, and no decoded  *)
(* pair names a facility outside that list.                                *)
C16_OneSelectedFacilityPerCustomer ==
    CoverageShown =>
       /\ \A c \in Customers :
             \E f \in SelectedSet :
                /\ <<c, f>> \in DOMAIN shown.coverage
                /\ \A g \in Facilities : <<c, g>> \in DOMAIN shown.coverage => g = f
       /\ \A p \in DOMAIN shown.coverage : p[2] \in SelectedSet

\* A coverage of two customers by two different facilities is shown.
C16_Witness ==
    /\ CoverageShown
    /\ Len(input.customers) = 2
    /\ <<0, 0>> \in DOMAIN shown.coverage
    /\ <<1, 1>> \in DOMAIN shown.coverage

\* The instance of the same size with every point at the origin and every
\* radius 0.
SameSizeAtOrigin ==
    [customers  |-> [c \in 1..Len(input.customers) |-> <<0, 0>>],
     radii      |-> [c \in 1..Len(input.customers) |-> 0],
     facilities |-> [f \in 1..Len(input.facilities) |-> <<0, 0>>]]

(* C17: the coverage model does not depend on the radii or on any          *)
(* coordinate: every instance builds the model of the instance of the same *)
(* numbers of customers and facilities with all points at the origin and   *)
(* all radii 0, so two instances that differ only in radii or positions    *)
(* build the same model.  (That a decoded pair may leave the customer's    *)
(* radius is the state of C17_Witness.)                                    *)
C17_ModelIgnoresRadii ==
    (page = "facilityLocation" /\ pc \in {"built", "solved", "done"}) =>
       model = BuildCoverage(SameSizeAtOrigin.customers, SameSizeAtOrigin.facilities,
                             SameSizeAtOrigin.radii)

\* An optimal coverage is shown in which a pair links a customer to a
\* facility outside the customer's radius.
C17_Witness ==
    /\ CoverageShown /\ status = "OPTIMAL"
    /\ \E p \in DOMAIN shown.coverage :
          ~is_within_coverage(input.facilities[p[2] + 1], input.customers[p[1] + 1],
                              input.radii[p[1] + 1])

(***************************************************************************)
(* A session: when the button is pressed again the script runs from the    *)
(* top with the same widget values, and the handler builds a new Model.    *)
(* The sessions explored are those of the job shop example and defaults,   *)
(* of the allocation example, and of every facility location and coverage  *)
(* input.                                                                  *)
(***************************************************************************)
InitSession ==
    \/ InitJobShop /\ input \in {ExampleJobShop, DefaultJobShop}
    \/ InitAllocation /\ input \in {ExampleBudget, ExampleMulti}
    \/ InitLocation

\* The next press of the button: the outcome of the last run leaves the
\* page, its Model is no longer referenced (kept here as history).
Rerun ==
    /\ pc = "done"
    /\ previous' = model
    /\ pc' = "input"
    /\ horizon' = 0
    /\ model' = NoModel
    /\ status' = "LOADED"
    /\ X' = NoValues
    /\ shown' = NoResult
    /\ UNCHANGED <<page, input, files, process, usage>>

NextSession == NextJobShop \/ NextAllocation \/ NextLocation \/ Rerun

SpecSession == InitSession /\ [][NextSession]_vars

C19_NoResultUnlessOptimal ==
    (pc = "done" /\ status # "OPTIMAL") => shown.kind \in {"error", "exception"}

(* C20: every status other than OPTIMAL is surfaced verbatim: the outcome  *)
(* reported names the status, so that INFEASIBLE and any other non-optimal *)
(* status are told apart.                                                  *)
C20_StatusSurfacedVerbatim ==
    (pc = "done" /\ status # "OPTIMAL") =>
       ("status" \in DOMAIN shown /\ shown.status = status)

(***************************************************************************)
(* A session whose inputs change between solves.  Every widget edit and    *)
(* every press of a button runs the page's script from the top; the        *)
(* handlers above are what the script does once the button is pressed.     *)
(* The inputs edited in are the forms' smallest instances and the          *)
(* end-to-end examples.                                                    *)
(***************************************************************************)
Zeros(n) == [k \in 1..n |-> 0]

SingleTaskJobShop == [jobs_data |-> << << <<0, 1>> >> >>, num_machines |-> 1]

EditedInputs(p) ==
    CASE p = "JobShop" -> {DefaultJobShop, SingleTaskJobShop}
      [] p = "BudgetAllocation" ->
           {ExampleBudget, BudgetInput(Zeros(1 + 5 * MinProjects))}
      [] p = "pages/BudgetAllocation" ->
           {ExampleMulti,
            MultiInput(Zeros(2 * DefaultResources + (3 + DefaultResources) * MinProjects))}
      [] p \in {"pages/FacilityLocation", "FacilityLocation"} ->
           {FacilityInput(nc, 1, Zeros(2 * nc + 4)) : nc \in 1..DefaultCustomers}
      [] p = "facilityLocation" ->
           {CoverageInput(nc, 1, Zeros(3 * nc + 2)) : nc \in 1..DefaultCustomers}

InitEdits ==
    /\ page \in {"JobShop", "BudgetAllocation", "pages/BudgetAllocation",
                 "pages/FacilityLocation", "FacilityLocation", "facilityLocation"}
    /\ input \in EditedInputs(page)
    /\ pc = "input"
    /\ horizon = 0
    /\ model = NoModel
    /\ status = "LOADED"
    /\ X = NoValues
    /\ shown = NoResult
    /\ previous = NoModel
    /\ files = {}
    /\ process = NoProcess
    /\ usage = NoUsage

\* The Model of the last solve kept for the next one: the edited inputs
\* meet a model that is already built.
EditInput_KeepModel ==
    /\ pc = "done"
    /\ input' \in EditedInputs(page) \ {input}
    /\ previous' = model
    /\ pc' = "built"
    /\ status' = "LOADED"
    /\ X' = NoValues
    /\ shown' = NoResult
    /\ UNCHANGED <<page, horizon, model, files, process, usage>>

\* A widget is edited after a solve: the script reruns with the new values,
\* the button reads False and the last outcome leaves the page.  The Model
\* of the last solve was a local of the handler (kept here as history).
EditInput ==
    /\ pc = "done"
    /\ input' \in EditedInputs(page) \ {input}
    /\ previous' = model
    /\ pc' = "input"
    /\ horizon' = 0
    /\ model' = NoModel
    /\ status' = "LOADED"
    /\ X' = NoValues
    /\ shown' = NoResult
    /\ UNCHANGED <<page, files, process, usage>>

NextEdits == NextJobShop \/ NextAllocation \/ NextLocation \/ Rerun \/ EditInput

SpecEdits == InitEdits /\ [][NextEdits]_vars

\* The model each page's handler builds from the inputs it is given.
ModelOf(p, inp) ==
    CASE p = "JobShop" ->
           BuildJobShop(inp.jobs_data, inp.num_machines, Horizon(inp.jobs_data))
      [] p = "BudgetAllocation" -> BuildBudget(inp)
      [] p = "pages/BudgetAllocation" -> BuildMulti(inp)
      [] p = "pages/FacilityLocation" ->
           BuildFacility(inp.customers, inp.facilities, inp.setup_cost, inp.cost_per_mile)
      [] p = "FacilityLocation" ->
           BuildFacilityProd(inp.customers, inp.facilities, inp.setup_cost, inp.cost_per_mile)
      [] p = "facilityLocation" -> BuildCoverage(inp.customers, inp.facilities, inp.radii)

\* One step of a solve action that follows the contract: the model is built
\* from nothing, the engine runs on it once, the outcome is shown.
SolveStep ==
    /\ pc' = "built" => (pc = "input" /\ model = NoModel)
    /\ pc' \in {"built", "solved", "done"} => model' = ModelOf(page', input')
    /\ pc = "built" => (pc' = "solved" /\ model' = model)
    /\ pc' = "solved" => pc = "built"
    /\ pc = "solved" => (pc' = "done" /\ model' = model /\ status' = status /\ X' = X)

(* C21: for any sequence of solve actions in a session, each solve action  *)
(* builds a new model from nothing, runs the engine exactly once on it     *)
(* (between the build and the outcome there is one optimize step and the   *)
(* model is not touched after it), and the model is the one determined by  *)
(* the inputs current at that action, whatever was solved earlier in the   *)
(* session.                                                                *)
C21_SolveDependsOnCurrentInputs == [][SolveStep]_vars

\* A solve has ended after an earlier solve of different inputs.
C21_Witness ==
    /\ pc = "done"
    /\ previous # NoModel
    /\ previous # model
    /\ status = "OPTIMAL"

(***************************************************************************)
(* Resource-usage page (src/ScriptsOptimization.py): the uploaded script   *)
(* is written to the working directory and run as a child process whose    *)
(* stdout and stderr are pipes; the parent polls the child and samples the *)
(* machine's CPU and memory while the child is alive, then reads the       *)
(* pipes, and sizes a CPU and a memory allocation with an LP.              *)
(***************************************************************************)
\* What a pipe holds before a write to it blocks, in writes of the child.
PipeCapacity == 2
\* A script writes at most MaxOutput times before it ends.
MaxOutput == 3
\* The lists keep the first MaxSamples samples; the loop itself goes on.
MaxSamples == 2
\* A sample reads 5 * a percent of CPU and 5 * b of memory; the a and b of
\* one run add up to MaxReading at most.
MaxReading == 1
\* time_limit ranges over 1..MaxLimit seconds.
MaxLimit == 1

\* Time is counted in sampling intervals (interval=0.1): 10 to the second.
Second == 10

\* A script is the sequence of its writes, each to one of the two streams;
\* it ends after the last one.
RECURSIVE WritesUpTo(_)
WritesUpTo(n) ==
    IF n = 0 THEN {<<>>}
    ELSE WritesUpTo(n - 1) \cup
         {<<w>> \o rest : w \in {"stdout", "stderr"},
                          rest \in {r \in WritesUpTo(n - 1) : Len(r) = n - 1}}

Scripts == WritesUpTo(MaxOutput)

NoFile == [name |-> ""]

\* st.file_uploader and the four number_input fields (lines 23-35);
\* costs are in tenths, the form starts at 0.5 and 0.2 and steps by 0.1
\* with no minimum.
SamplerInput(file, limit, cpu, memory) ==
    [uploaded_file |-> file,
     time_limit    |-> limit,
     memory_limit  |-> 50,
     cost_cpu      |-> cpu,
     cost_memory   |-> memory]

Upload(script) == [name |-> "script.py", content |-> script]

\* Every script under the opening costs, and the silent script under every
\* limit and costs of either sign.
SamplerInputs ==
    {SamplerInput(NoFile, 1, 5, 2)}
    \cup {SamplerInput(Upload(s), 1, 5, 2) : s \in Scripts}
    \cup {SamplerInput(Upload(<<>>), t, c, m) :
            t \in 1..MaxLimit, c \in {-1, 0, 5}, m \in {-1, 0, 2}}

\* temp_file_path = f"./{uploaded_file.name}"
temp_file_path == input.uploaded_file.name

\* psutil.cpu_percent(interval=0.1), psutil.virtual_memory().used / 1024**3
Readings(u) ==
    LET left == 5 * MaxReading - SumSeq(u.cpu_usage) - SumSeq(u.memory_usage)
    IN  {<<5 * p[1], 5 * p[2]>> :
            p \in {q \in (0..MaxReading) \X (0..MaxReading) : 5 * (q[1] + q[2]) <= left}}

\* What one turn of the loop takes: the sampling interval, or over a second
\* when the chart is slow to draw.
Gaps == {1, Second + 1}

RECURSIVE MaxOf(_)
\* max(s, default=0) of non-negative readings
MaxOf(s) ==
    IF s = <<>> THEN 0
    ELSE LET m == MaxOf(Tail(s)) IN IF Head(s) > m THEN Head(s) ELSE m

\* execution_time = timestamps[-1] - timestamps[0] if timestamps else 0
execution_time(timestamps) ==
    IF timestamps = <<>> THEN 0 ELSE timestamps[Len(timestamps)] - timestamps[1]

\* max_cpu*1.2, exact on the readings (multiples of 5)
Margin(peak) == (12 * peak) \div 10

\* x_cpu, x_memory: continuous, lower bound 0, no upper bound.
ScriptVars ==
    << [name |-> <<"CPU_Usage">>, vtype |-> "CONTINUOUS"],
       [name |-> <<"Memory_Usage">>, vtype |-> "CONTINUOUS"] >>

x_cpu == 1
x_memory == 2

\* model.addConstr(x_cpu >= max_cpu*1.2, name="CPU_Constraint")
CPU_Constraint(u) ==
    [name  |-> <<"CPU_Constraint">>,
     lhs   |-> Lin(<<Term(1, x_cpu)>>, 0),
     sense |-> ">=",
     rhs   |-> Lin(<<>>, Margin(MaxOf(u.cpu_usage)))]

\* Mutant: the allocation only has to be non-negative.
Memory_Constraint_NoPeak(u) ==
    [name  |-> <<"Memory_Constraint">>,
     lhs   |-> Lin(<<Term(1, x_memory)>>, 0),
     sense |-> ">=",
     rhs   |-> Lin(<<>>, 0)]

\* model.addConstr(x_memory >= max_memory*1.2, name="Memory_Constraint")
Memory_Constraint(u) ==
    [name  |-> <<"Memory_Constraint">>,
     lhs   |-> Lin(<<Term(1, x_memory)>>, 0),
     sense |-> ">=",
     rhs   |-> Lin(<<>>, Margin(MaxOf(u.memory_usage)))]

\* model.addConstr(execution_time <= time_limit, name="Time_Constraint"):
\* both sides are numbers, no variable takes part.
Time_Constraint(inp, u) ==
    [name  |-> <<"Time_Constraint">>,
     lhs   |-> Lin(<<>>, execution_time(u.timestamps)),
     sense |-> "<=",
     rhs   |-> Lin(<<>>, Second * inp.time_limit)]

\* Lines 99-111.
BuildScript(inp, u) ==
    [name    |-> "Script_Optimization",
     vars    |-> ScriptVars,
     constrs |-> <<CPU_Constraint(u), Memory_Constraint(u), Time_Constraint(inp, u)>>,
     obj     |-> Lin(<<Term(inp.cost_cpu, x_cpu), Term(inp.cost_memory, x_memory)>>, 0),
     sense   |-> "MINIMIZE"]

\* f"{v:.2f}": the value in hundredths.
Hundredths(v) == 100 * v

(***************************************************************************)
(* The handler of "Lancer l'Analyse" (lines 43-129) and the child.         *)
(***************************************************************************)
InitSampler ==
    /\ page = "ScriptsOptimization"
    /\ input \in SamplerInputs
    /\ pc = "input"
    /\ horizon = 0
    /\ model = NoModel
    /\ status = "LOADED"
    /\ X = NoValues
    /\ shown = NoResult
    /\ previous = NoModel
    /\ files = {}
    /\ process = NoProcess
    /\ usage = NoUsage

\* Lines 44-45: nothing was uploaded.
NoUpload ==
    /\ page = "ScriptsOptimization" /\ pc = "input"
    /\ input.uploaded_file = NoFile
    /\ shown' = [kind |-> "error", message |-> "upload"]
    /\ pc' = "done"
    /\ UNCHANGED <<page, input, horizon, model, status, X, previous, files, process, usage>>

\* Lines 48-54: the script is written beside the application.
WriteTemp ==
    /\ page = "ScriptsOptimization" /\ pc = "input"
    /\ input.uploaded_file # NoFile
    /\ files' = files \cup {temp_file_path}
    /\ usage' = NoUsage
    /\ pc' = "popen"
    /\ UNCHANGED <<page, input, horizon, model, status, X, shown, previous, process>>

\* Lines 56-58: the child starts with both streams piped to the parent.
Popen ==
    /\ page = "ScriptsOptimization" /\ pc = "popen"
    /\ process' = [state  |-> "running",
                   todo   |-> input.uploaded_file.content,
                   stdout |-> 0,
                   stderr |-> 0]
    /\ pc' = "poll"
    /\ UNCHANGED <<page, input, horizon, model, status, X, shown, previous, files, usage>>

\* Line 64: process.poll() is None.
PollAlive ==
    /\ page = "ScriptsOptimization" /\ pc = "poll"
    /\ process.state = "running"
    /\ pc' = "sample"
    /\ UNCHANGED <<page, input, horizon, model, status, X, shown, previous, files, process, usage>>

\* Lines 65-83: one measurement over the interval, appended with its time.
Sample ==
    /\ page = "ScriptsOptimization" /\ pc = "sample"
    /\ IF Len(usage.timestamps) < MaxSamples
       THEN \E r \in Readings(usage), g \in Gaps :
              usage' = [cpu_usage    |-> Append(usage.cpu_usage, r[1]),
                        memory_usage |-> Append(usage.memory_usage, r[2]),
                        timestamps   |-> Append(usage.timestamps,
                                                IF usage.timestamps = <<>> THEN 0
                                                ELSE usage.timestamps[Len(usage.timestamps)] + g)]
       ELSE UNCHANGED usage
    /\ pc' = "poll"
    /\ UNCHANGED <<page, input, horizon, model, status, X, shown, previous, files, process>>

\* Mutant: the loop goes on measuring after the child has exited.
PollExited_KeepsSampling ==
    /\ page = "ScriptsOptimization" /\ pc = "poll"
    /\ process.state = "exited"
    /\ pc' = "sample"
    /\ UNCHANGED <<page, input, horizon, model, status, X, shown, previous, files, process, usage>>

\* Line 64: process.poll() returns the exit code, the loop ends.
PollExited ==
    /\ page = "ScriptsOptimization" /\ pc = "poll"
    /\ process.state = "exited"
    /\ pc' = "communicate"
    /\ UNCHANGED <<page, input, horizon, model, status, X, shown, previous, files, process, usage>>

\* Line 85: process.communicate() reads both pipes to their end.
Communicate ==
    /\ page = "ScriptsOptimization" /\ pc = "communicate"
    /\ process.state = "exited"
    /\ process' = [process EXCEPT !.stdout = 0, !.stderr = 0]
    /\ pc' = "statistics"
    /\ UNCHANGED <<page, input, horizon, model, status, X, shown, previous, files, usage>>

\* Lines 87-111, gurobipy taking the comparison of two numbers as a
\* constraint that holds or fails by itself.
ScriptBuild ==
    /\ page = "ScriptsOptimization" /\ pc = "statistics"
    /\ model' = BuildScript(input, usage)
    /\ pc' = "built"
    /\ UNCHANGED <<page, input, horizon, status, X, shown, previous, files, process, usage>>

\* The allocations have no upper bound in the engine; the exploration lets
\* them range up to Slack above the largest margin.
ScriptCap == Margin(5 * MaxReading) + Slack

\* Line 114: model.optimize().  With a negative cost the objective has no
\* minimum: the allocations are only bounded below.  The page reads the
\* values under OPTIMAL only (line 116); under any other status X is empty.
ScriptOptimize ==
    /\ page = "ScriptsOptimization" /\ pc = "built"
    /\ pc' = "solved"
    /\ LET F == Feasible(model, ScriptCap)
           falling == \E k \in 1..Len(model.obj.terms) : model.obj.terms[k][1] < 0
       IN  \/ /\ F = {}
              /\ status' = "INFEASIBLE" /\ X' = NoValues
           \/ /\ F # {} /\ falling
              /\ status' = "UNBOUNDED" /\ X' = NoValues
           \/ /\ F # {} /\ ~falling
              /\ status' = "OPTIMAL" /\ X' \in Optimal(model, F)
           \/ /\ status' = "INTERRUPTED" /\ X' = NoValues
    /\ UNCHANGED <<page, input, horizon, model, shown, previous, files, process, usage>>

\* Lines 116-120.
ScriptShow ==
    /\ page = "ScriptsOptimization" /\ pc = "solved" /\ status = "OPTIMAL"
    /\ shown' = [kind   |-> "optimal",
                 cpu    |-> Hundredths(X[x_cpu]),
                 memory |-> Hundredths(X[x_memory]),
                 cost   |-> 10 * Objective(model, X)]
    /\ pc' = "finally"
    /\ UNCHANGED <<page, input, horizon, model, status, X, previous, files, process, usage>>

\* Lines 121-122.
ScriptError ==
    /\ page = "ScriptsOptimization" /\ pc = "solved" /\ status # "OPTIMAL"
    /\ shown' = [kind |-> "error", message |-> "no optimal solution"]
    /\ pc' = "finally"
    /\ UNCHANGED <<page, input, horizon, model, status, X, previous, files, process, usage>>

\* Lines 124-125: anything raised inside the try block (the launch, a
\* measurement, the chart, communicate, gurobipy refusing a constraint
\* that is a plain bool, the engine) is reported.
Raise ==
    /\ page = "ScriptsOptimization"
    /\ pc \in {"popen", "sample", "communicate", "statistics", "built"}
    /\ shown' = [kind |-> "exception"]
    /\ pc' = "finally"
    /\ UNCHANGED <<page, input, horizon, model, status, X, previous, files, process, usage>>

\* Lines 49-50 fail: the file may or may not have been created.
WriteFails ==
    /\ page = "ScriptsOptimization" /\ pc = "input"
    /\ input.uploaded_file # NoFile
    /\ files' \in {files, files \cup {temp_file_path}}
    /\ shown' = [kind |-> "exception"]
    /\ pc' = "finally"
    /\ UNCHANGED <<page, input, horizon, model, status, X, previous, process, usage>>

\* Mutant: the file is removed at the end of the try block only.
Cleanup_AfterSuccess ==
    /\ page = "ScriptsOptimization" /\ pc = "finally"
    /\ files' = IF shown.kind = "exception" THEN files ELSE files \ {temp_file_path}
    /\ pc' = "done"
    /\ UNCHANGED <<page, input, horizon, model, status, X, shown, previous, process, usage>>

\* Lines 127-129: finally, os.remove when the path exists.
Cleanup ==
    /\ page = "ScriptsOptimization" /\ pc = "finally"
    /\ files' = files \ {temp_file_path}
    /\ pc' = "done"
    /\ UNCHANGED <<page, input, horizon, model, status, X, shown, previous, process, usage>>

\* The child writes to a stream; the write goes through when the pipe has
\* room and waits otherwise.
ChildWrite ==
    /\ process.state = "running"
    /\ process.todo # <<>>
    /\ process[Head(process.todo)] < PipeCapacity
    /\ process' = [process EXCEPT ![Head(process.todo)] = @ + 1, !.todo = Tail(@)]
    /\ UNCHANGED <<page, pc, input, horizon, model, status, X, shown, previous, files, usage>>

\* The child reaches the end of the script.
ChildExit ==
    /\ process.state = "running"
    /\ process.todo = <<>>
    /\ process' = [process EXCEPT !.state = "exited"]
    /\ UNCHANGED <<page, pc, input, horizon, model, status, X, shown, previous, files, usage>>

Parent ==
    \/ NoUpload
    \/ WriteTemp
    \/ WriteFails
    \/ Popen
    \/ PollAlive
    \/ Sample
    \/ PollExited
    \/ Communicate
    \/ ScriptBuild
    \/ ScriptOptimize
    \/ ScriptShow
    \/ ScriptError
    \/ Raise
    \/ Cleanup

Child == ChildWrite \/ ChildExit

NextSampler == Parent \/ Child

SpecSampler == InitSampler /\ [][NextSampler]_vars

\* Lines 64-85: the loop and the read that follows it.
Loop == PollAlive \/ Sample \/ PollExited \/ Communicate

\* The parent's thread keeps running through the loop and the operating
\* system keeps scheduling the child.
SpecSamplerLive == SpecSampler /\ WF_vars(Loop) /\ WF_vars(Child)

(***************************************************************************)
(* Claims about the resource-usage page.                                   *)
(***************************************************************************)
InLoop == page = "ScriptsOptimization" /\ pc \in {"poll", "sample"}

\* A sample is appended while the child is alive.
SampleWhileAlive == (pc = "sample" /\ pc' = "poll") => process.state = "running"

\* Once the child has exited, control reaches the statistics step.
ExitReachesStatistics == (InLoop /\ process.state = "exited") ~> (pc = "statistics")

PolledStep ==
    /\ (pc # "sample" /\ pc' = "sample") => (pc = "poll" /\ process.state = "running")
    /\ (pc = "poll" /\ pc' # "poll" /\ process.state = "exited") => pc' = "communicate"
    /\ (pc = "communicate" /\ pc' # "communicate") => (pc' = "statistics" \/ shown'.kind = "exception")

OptimalShown == page = "ScriptsOptimization" /\ shown.kind = "optimal"

(* C23: whenever an optimal solution is displayed, the CPU allocation and  *)
(* the memory allocation are each at least the observed peak of the        *)
(* corresponding samples, and a run whose measured execution time exceeds  *)
(* the user's time limit never ends in the optimal-solution outcome.       *)
C23_AllocationCoversPeak ==
    /\ OptimalShown =>
          /\ shown.cpu >= Hundredths(MaxOf(usage.cpu_usage))
          /\ shown.memory >= Hundredths(MaxOf(usage.memory_usage))
    /\ (page = "ScriptsOptimization"
          /\ execution_time(usage.timestamps) > Second * input.time_limit)
       => shown.kind # "optimal"

\* An optimal allocation is displayed for a run with a positive peak that
\* took some time.
C23_Witness ==
    /\ OptimalShown
    /\ MaxOf(usage.cpu_usage) + MaxOf(usage.memory_usage) > 0
    /\ execution_time(usage.timestamps) > 0

(***************************************************************************)
(* Job shop: the shape of the decoded schedule.                            *)
(***************************************************************************)
\* Where the entries of task (job_id, task_id) stand: <<machine, position>>.
Places(schedule, job_id, task_id) ==
    UNION {{<<m, i>> : i \in {i \in 1..Len(schedule[m]) :
                                 schedule[m][i][1] = job_id /\ schedule[m][i][2] = task_id}}
             : m \in DOMAIN schedule}

(* C24: after decoding, every (job, task) of the input appears exactly     *)
(* once in the schedule, in the list of the machine it is assigned to and  *)
(* with its input duration; every machine in 0..num_machines-1 has a       *)
(* (possibly empty) list; each list is in ascending order of start time.   *)
C24_DecodeComplete ==
    ScheduleShown =>
       LET schedule == shown.schedule
           keys     == Keys
       IN  /\ DOMAIN schedule = 0..(input.num_machines - 1)
           /\ \A k \in 1..Len(keys) :
                 LET task == TaskOf(Jobs, keys[k][1], keys[k][2])
                     at   == Places(schedule, keys[k][1], keys[k][2])
                 IN  /\ Cardinality(at) = 1
                     /\ \A p \in at :
                           /\ p[1] = Machine(task)
                           /\ schedule[p[1]][p[2]][4] = Duration(task)
           /\ SumSeq([m \in 1..input.num_machines |-> Len(schedule[m - 1])]) = Len(keys)
           /\ \A m \in DOMAIN schedule : \A i \in 1..(Len(schedule[m]) - 1) :
                 schedule[m][i][3] <= schedule[m][i + 1][3]

\* A schedule is shown in which a machine runs a later job's task first.
C24_Witness ==
    /\ ScheduleShown
    /\ \E m \in DOMAIN shown.schedule :
          /\ Len(shown.schedule[m]) >= 2
          /\ shown.schedule[m][1][1] > shown.schedule[m][2][1]

(* C25: the two facility-location implementations build the same model    *)
(* for every input (same variables, same Setup2ship and Demand             *)
(* constraints, objectives equal term by term: setup_cost[f] with          *)
(* select[f], shipping_cost[c, f] with assign[c, f]) and their decoders    *)
(* return the same selected facilities and shipments for the same solved   *)
(* values.                                                                 *)
C25_SameModelAndDecode ==
    (page = "FacilityLocation" /\ pc \in {"built", "solved", "done"}) =>
       /\ model = BuildFacility(input.customers, input.facilities,
                                input.setup_cost, input.cost_per_mile)
       /\ (pc = "done" /\ shown.kind = "facility") =>
             shown = [kind |-> "facility"]
                       @@ DecodeFacility(Len(input.customers), Len(input.facilities),
                                         VarX(model, X))

\* The tupledict.prod page has shown a result for two facilities, one of
\* them with a cost in the objective.
C25_Witness ==
    /\ page = "FacilityLocation" /\ pc = "done" /\ shown.kind = "facility"
    /\ Len(input.facilities) >= 2
    /\ \E k \in 1..Len(model.obj.terms) : model.obj.terms[k][1] # 0

(* C26: the facility location and coverage models are feasible for every  *)
(* input with at least one customer and at least one facility (any setup   *)
(* costs, any non-negative rate): the engine never ends INFEASIBLE, so the *)
(* decoders, which read the values without looking at the status, never    *)
(* read from an infeasible model.                                          *)
C26_LocationFeasible ==
    (page \in LocationPages /\ pc \in {"solved", "done"}) => status # "INFEASIBLE"

\* A negative setup cost has been optimised and decoded.
C26_Witness ==
    /\ page \in LocationPages /\ pc = "done"
    /\ status = "OPTIMAL"
    /\ shown.kind = "facility"
    /\ \E i \in 1..Len(input.setup_cost) : input.setup_cost[i] < 0

(* C27: coverage, any input with at least one customer and one facility:   *)
(* the optimal objective value is exactly 1; the result decoded from an    *)
(* optimum selects exactly one facility and assigns every customer to it,  *)
(* whatever the coordinates and radii.                                     *)
C27_CoverageOptimumIsOne ==
    (page = "facilityLocation" /\ pc \in {"solved", "done"} /\ status = "OPTIMAL") =>
       /\ Objective(model, X) = 1
       /\ CoverageShown =>
             /\ Len(shown.selected_facilities) = 1
             /\ DOMAIN shown.coverage = Customers \X {shown.selected_facilities[1]}

\* An optimum is shown for two customers and two facilities that are not
\* all at the same place.
C27_Witness ==
    /\ CoverageShown /\ status = "OPTIMAL"
    /\ Len(input.customers) = 2 /\ Len(input.facilities) = 2
    /\ input # SameSizeAtOrigin

(***************************************************************************)
(* One browser session over the coverage tool (src/facilityLocation.py,    *)
(* the script the application is started from) and the facility location   *)
(* page (src/pages/FacilityLocation.py).  Both keep their sidebar values   *)
(* in st.session_state under the same keys; here `input` is that           *)
(* st.session_state, a function from the keys present to their values, and *)
(* a step is one run of a page's script down to the button.                *)
(***************************************************************************)
\* st.session_state.num_facilities = 5
DefaultFacilities == 5

\* np.random.uniform(-50, 50) for each coordinate of n points: some numbers,
\* here naturals that sum to at most MaxSpread.
RandomPoints(n) ==
    {[i \in 1..n |-> <<e[2 * i - 1], e[2 * i]>>] : e \in FieldsWithin(2 * n, MaxSpread)}

\* np.random.uniform(5, 20) for each of n radii
RandomRadii(n) ==
    {[i \in 1..n |-> 5 + e[i]] : e \in FieldsWithin(n, MaxSpread)}

\* What a number field of page p returns: the value it is given, or, when
\* the last run drew the same page, what the user has typed over it since.
Entered(p, given, typed) ==
    IF pc = "start" \/ page # p THEN {given} ELSE {given} \cup typed

\* if key not in st.session_state: st.session_state[key] = value
SetDefault(s, key, value) == IF key \in DOMAIN s THEN s ELSE (key :> value) @@ s

\* st.session_state[key] = value
Store(s, key, value) == (key :> value) @@ s

\* Lines 107-110 and 134-137 (resp. 117-120 and 137-140): the count is
\* defaulted, offered in a number field and stored back.
Counts == (1..DefaultCustomers) \X ((1..MaxFacilities) \cup {DefaultFacilities})

\* if key not in st.session_state or len(st.session_state[key]) != n:
\*     st.session_state[key] = [... for _ in range(n)]
\* The lists the key can hold afterwards: a fresh draw, or the one kept.
Renewed(s, key, n, fresh) ==
    IF key \notin DOMAIN s \/ Len(s[key]) # n THEN fresh ELSE {s[key]}

\* src/facilityLocation.py lines 107-151: every field read is [0] or [1],
\* every facility is stored back as (x, y).
RenderCoverage ==
    /\ page' = "facilityLocation"
    /\ \E n \in Counts :
          LET s1 == SetDefault(SetDefault(input, "num_customers", DefaultCustomers),
                               "num_facilities", DefaultFacilities)
          IN  /\ n[1] \in Entered("facilityLocation", s1.num_customers, 1..DefaultCustomers)
              /\ n[2] \in Entered("facilityLocation", s1.num_facilities, 1..MaxFacilities)
              /\ \E cs \in Renewed(s1, "customers", n[1], RandomPoints(n[1])),
                    rs \in Renewed(s1, "radii", n[1], RandomRadii(n[1])),
                    fs \in Renewed(s1, "facilities", n[2], RandomPoints(n[2])) :
                    LET s2 == Store(Store(s1, "num_customers", n[1]), "num_facilities", n[2])
                        s3 == Store(Store(Store(s2, "customers", cs), "radii", rs),
                                    "facilities", fs)
                    IN  \E first_x \in Entered("facilityLocation", s3.facilities[1][1],
                                                0..MaxSpread) :
                          input' =
                            Store(Store(s3, "customers",
                                        [i \in 1..n[1] |->
                                           <<s3.customers[i][1], s3.customers[i][2]>>]),
                                  "facilities",
                                  [i \in 1..n[2] |->
                                     <<IF i = 1 THEN first_x ELSE s3.facilities[i][1],
                                       s3.facilities[i][2]>>])
    /\ shown' = [kind |-> "form"]
    /\ pc' = "rendered"
    /\ UNCHANGED <<horizon, model, status, X, previous, files, process, usage>>

\* The first facility whose stored entry has no third field, 0 if none.
FirstShort(facilities) ==
    IF \A i \in 1..Len(facilities) : Len(facilities[i]) >= 3 THEN 0
    ELSE CHOOSE i \in 1..Len(facilities) :
            /\ Len(facilities[i]) < 3
            /\ \A k \in 1..(i - 1) : Len(facilities[k]) >= 3

\* src/pages/FacilityLocation.py lines 117-161: the facility fields read
\* are [0], [1] and [2]; st.session_state.facilities[i][2] on a pair raises
\* IndexError and the run ends there, with what was stored before it.
RenderFacility ==
    /\ page' = "pages/FacilityLocation"
    /\ \E n \in Counts :
          LET s1 == SetDefault(SetDefault(input, "num_customers", DefaultCustomers),
                               "num_facilities", DefaultFacilities)
          IN  /\ n[1] \in Entered("pages/FacilityLocation", s1.num_customers, 1..DefaultCustomers)
              /\ n[2] \in Entered("pages/FacilityLocation", s1.num_facilities, 1..MaxFacilities)
              /\ \E cs \in Renewed(s1, "customers", n[1], RandomPoints(n[1])),
                    fs \in Renewed(s1, "facilities", n[2],
                                   {[i \in 1..n[2] |-> <<r[i][1], r[i][2], 10>>] :
                                      r \in RandomPoints(n[2])}) :
                    LET s2 == Store(Store(s1, "num_customers", n[1]), "num_facilities", n[2])
                        s3 == Store(Store(s2, "customers", cs), "facilities", fs)
                        s4 == Store(s3, "customers",
                                    [i \in 1..n[1] |-> <<s3.customers[i][1], s3.customers[i][2]>>])
                        short == FirstShort(s3.facilities)
                    IN  \E first_x \in Entered("pages/FacilityLocation", s3.facilities[1][1],
                                                0..MaxSpread) :
                          LET stored(i) == <<IF i = 1 THEN first_x ELSE s3.facilities[i][1],
                                             s3.facilities[i][2], s3.facilities[i][3]>>
                          IN  IF short = 0
                              THEN /\ input' = Store(s4, "facilities",
                                                     [i \in 1..n[2] |-> stored(i)])
                                   /\ shown' = [kind |-> "form"]
                                   /\ pc' = "rendered"
                              ELSE /\ input' = Store(s4, "facilities",
                                                     [i \in 1..n[2] |->
                                                        IF i < short THEN stored(i)
                                                        ELSE s3.facilities[i]])
                                   /\ shown' = [kind |-> "exception", error |-> "IndexError"]
                                   /\ pc' = "failed"
    /\ UNCHANGED <<horizon, model, status, X, previous, files, process, usage>>

InitRender ==
    /\ page = "facilityLocation"
    /\ pc = "start"
    /\ input = <<>>
    /\ horizon = 0
    /\ model = NoModel
    /\ status = "LOADED"
    /\ X = NoValues
    /\ shown = NoResult
    /\ previous = NoModel
    /\ files = {}
    /\ process = NoProcess
    /\ usage = NoUsage

NextRender == RenderCoverage \/ RenderFacility

SpecRender == InitRender /\ [][NextRender]_vars

\* The fields a page reads of every stored facility.
FieldsRead(p) == IF p = "pages/FacilityLocation" THEN 3 ELSE 2

(* C28: after any sequence of renders of the coverage tool and the         *)
(* facility location page in one session, every entry of the stored        *)
(* 'facilities' list has the fields the page being rendered reads (x, y,   *)
(* and a setup cost for the facility location page), so that a render      *)
(* never fails on a missing field.                                         *)
C28_SessionStateWellShaped ==
    pc \in {"rendered", "failed"} =>
       /\ shown.kind = "form"
       /\ \A i \in 1..Len(input.facilities) : Len(input.facilities[i]) >= FieldsRead(page)

(* C29: on every path through an analysis action that has written the      *)
(* uploaded script to its temporary path (normal completion, non-optimal   *)
(* LP, or an exception during launch, sampling or solving), the temporary  *)
(* file no longer exists when the action ends.                             *)
C29_TempFileRemoved ==
    (page = "ScriptsOptimization" /\ pc = "done") =>
       (input.uploaded_file = NoFile \/ temp_file_path \notin files)

\* The action has ended on an exception raised after the child was started.
C29_Witness ==
    /\ page = "ScriptsOptimization" /\ pc = "done"
    /\ shown.kind = "exception"
    /\ process # NoProcess
    /\ files = {}

(* C30: for every child script that would end in finite time when its      *)
(* output is consumed, the parent's polling loop eventually ends, however  *)
(* much the child writes to its piped stdout and stderr: the parent        *)
(* waiting for the exit and the child waiting for room in a pipe never     *)
(* block each other forever.                                               *)
C30_LoopEventuallyEnds == InLoop ~> ~InLoop

=============================================================================
